---- MODULE Spec2Model ----
(***************************************************************************)
(* A state-machine model of the opencis-core CXL fabric emulator.          *)
(*                                                                         *)
(* The module holds several specifications over one set of variables; each *)
(* specification moves the variables of one component and leaves the       *)
(* others at their constructed values:                                     *)
(*   SpecConn  the switch connection manager (sideband handshake)          *)
(*   SpecHA    the host home agent between cache controller and device     *)
(*   SpecHost  the host's CPU, cache controller, coherency bridge, memory  *)
(*             controller and home agent                                   *)
(*   SpecVS    the virtual switch, its bindings and the CCI client         *)
(*   SpecRoute the virtual switch routing CXL.io configuration requests    *)
(*   SpecFreeze the virtual switch forwarding through frozen vPPBs         *)
(*   SpecSwitchHdm the switch's HDM decoder manager                        *)
(*   SpecDeviceHdm the device's HDM decoder manager                        *)
(*   SpecPP    the packet processor of one connection                      *)
(*   SpecPPLive the packet processor under a fair event loop               *)
(*   SpecLife  the home agent run, awaited and stopped by a test           *)
(*   SpecLifeLive the same under fair scheduling of its tasks              *)
(*   SpecHAReplies the home agent under a fair event loop, every NDR opcode*)
(*   SpecReader the packet reader on a byte stream split into reads        *)
(*   SpecTyped the CCI branch of a packet processor, per component type    *)
(*   SpecSnoop the cache controller with its test's answers and snoops     *)
(*   SpecMctp  the MCTP connection manager                                 *)
(*   SpecHATimed the home agent, its read_cxl_mem and write_cxl_mem, time  *)
(*   SpecClient the CCI API client's message tags                          *)
(*   SpecBridge the cache coherency bridge serving coherent devices        *)
(*   SpecMemoryController the memory controller with byte addresses        *)
(***************************************************************************)
EXTENDS Integers, Sequences, FiniteSets, TLC

(***************************************************************************)
(* Bounds of the model.                                                    *)
(***************************************************************************)
\* number of TCP connections that are ever opened towards the switch
MaxConns == 3
\* number of switch ports configured in SwitchConnectionManager._ports
NumPorts == 2
\* number of flows offered to the home agent: CacheRequests of the cache
\* controller plus back-invalidate snoops of the device
MaxFlows == 3
\* number of loads and stores the CPU's program issues
MaxOps == 3
\* number of values a 64-byte line takes (stands for 2^512)
LineMod == 3
\* lines the cache holds (cache_num_assoc, one set)
CacheWays == 1
\* number of bind_vppb and unbind_vppb calls the switch executes
MaxCalls == 2
\* the decoder count field of the HDM decoder capability: 1 stands for two decoders
DecoderCountRegister == 1
\* bytes of the range a decoder is committed with
DecoderSize == 524288
\* interleave chunks of a decoder's range that are looked up
MaxChunk == 17
\* bits an address of the model has at most
MaxBits == 30
\* transaction ids the packets carry
MaxTid == 2
\* packets that enter the packet processor, from the peer and from the component
MaxPackets == 3
\* packets that enter the packet processor when its termination is checked
LivePackets == 2
\* number of flows offered to the home agent that a test runs and stops
LifeFlows == 2
\* the same, where termination is checked
LiveFlows == 1
\* number of MemoryRequests the memory bridges put on the agent's queues
MaxBridgeRequests == 1
\* number of flows offered to the home agent while time is observed
TimedFlows == 2
\* number of flows offered to the home agent where its return to INIT is checked
ReplyFlows == 2
\* read_cxl_mem and write_cxl_mem calls a test makes
MaxApiCalls == 1
\* periods of three seconds without an S2M packet
MaxTimeouts == 2
\* number of values the message tag of a CCI message takes (stands for 2^8)
TagMod == 4
\* _send_request calls the callers of the API client make: one more than there are tags
MaxRequests == TagMod + 1
\* event notifications the endpoint sends
MaxNotifications == 1
\* D2H requests the coherent devices send to the bridge
MaxD2HReqs == 2
\* coherent devices attached to the bridge at most
MaxCohDevs == 2
\* bytes of a line (stands for 64)
LineBytes == 2
\* values of a byte (stands for 256)
ByteMod == 2
\* bytes of the memory controller's backing file
MemorySize == 4
\* MemoryRequests the home agent passes to the memory controller
MaxMemRequests == 3
\* TCP connections that are ever opened towards the MCTP connection manager
MaxMctpConns == 5
\* bytes of the system header (stands for 4: two of payload_type, two of payload_length)
HeaderSize == 3
\* values of a byte in payload_length (stands for 256)
ByteBase == 8
\* bytes of a packet's body at most
MaxBody == 2
\* packets the peer writes to the packet reader's stream
MaxReaderPackets == 2
\* CCI packets read by the processor of one component
MaxCciPackets == 4
\* distinct CCI packets
MaxCciPayload == 3
\* snoops the test sends to the cache controller
MaxSnoops == 1
\* physical ports of the switch: the USP and three DSPs
PhysicalPortCount == 4
\* vppb_counts of the switch
VppbCount == 3

VARIABLES
    ports,          \* SwitchConnectionManager._ports: per port connected, packet_processor
    conn,           \* one record per TCP connection: the position of its _handle_client
    port_events,    \* PortUpdateEvent stream handed to the registered event handler
    ha,             \* HomeAgent._cur_state and the locals of its main loop
    c2h_req,        \* upstream_cache_to_home_agent_fifo.request (cache controller -> agent)
    c2h_rsp,        \* upstream_cache_to_home_agent_fifo.response: every response the agent has put
    h2c_req,        \* upstream_home_agent_to_cache_fifo.request (agent -> cache, snoops)
    h2c_rsp,        \* upstream_home_agent_to_cache_fifo.response (cache -> agent)
    h2t,            \* downstream_cxl_mem_fifos.host_to_target (M2S)
    t2h,            \* downstream_cxl_mem_fifos.target_to_host (S2M)
    s2m_ndr,        \* HomeAgentCxlChannel.s2m_ndr
    s2m_drs,        \* HomeAgentCxlChannel.s2m_drs
    s2m_bisnp,      \* HomeAgentCxlChannel.s2m_bisnp
    env,            \* the agent's surroundings: request counters, device memory
    cpu,            \* CPU: the load or store in progress, its chunk loop and its result
    p2c,            \* processor_to_cache_fifo: MemoryRequest and MemoryResponse queues
    cache,          \* cache controller: the lines held, least recently used first
    cc,             \* cache controller: the request in progress and its position
    cb,             \* cache_to_coh_bridge_fifo and the coherency bridge's position
    mem,            \* memory fifos between bridge, home agent and memory controller; DRAM
    vs,             \* CxlVirtualSwitch: vPPB bindings, bridge bus numbers, the last call
    fm,             \* MctpCciApiClient: the bind_vppb or unbind_vppb call in progress
    cci,            \* CCI requests and responses in flight, background operation status
    io,             \* CXL.io configuration request at the USP and its completion
    fz,             \* freeze_state of each vPPB
    tp,             \* packet the host sends through a vPPB, and what the switch did with it
    sw_hdm,         \* SwitchHdmDecoderManager: _decoders and the last call's result
    dev_hdm,        \* DeviceHdmDecoderManager: _decoders and the last call's result
    pp,             \* CxlPacketProcessor: status, _tlp_table, its tasks and their scheduling
    mbox,           \* the processor's incoming and outgoing mailboxes
    wire,           \* the connection: packets to be read, packets written
    life,           \* the home agent as a component: status, ready signal, run(), tasks
    tm,             \* HomeAgent.read_cxl_mem / write_cxl_mem call in progress, timeouts seen
    cli,            \* MctpCciApiClient: tag counter, requests in flight, responses kept
    brg,            \* cache coherency bridge: coherent device count, snoops of devices
    mc,             \* MemoryController: the backing file and the last request served
    rd,             \* PacketReader: bytes on the stream, what was sent and delivered
    mctp,           \* MctpConnectionManager: the switch port and the connections
    ct              \* a packet processor of some component type and its CCI FIFOs

connVars == <<ports, conn, port_events>>
haVars == <<ha, c2h_req, c2h_rsp, h2c_req, h2c_rsp, h2t, t2h, s2m_ndr, s2m_drs, s2m_bisnp, env>>

hostVars == <<cpu, p2c, cache, cc, cb, mem>>
vsVars == <<vs, fm, cci, io>>
fzVars == <<fz, tp>>
\* the variables of the components modelled after the virtual switch
hdmVars == <<sw_hdm, dev_hdm>>
\* the groups that follow the frozen vPPBs
ppVars == <<pp, mbox, wire>>
\* the groups that follow the decoders
lifeVars == <<life>>
\* the groups that follow the component lifecycle
timeVars == <<tm>>
cliVars == <<cli>>
brgVars == <<brg>>
mcVars == <<mc>>
rdVars == <<rd>>
mctpVars == <<mctp>>
ctVars == <<ct>>
afterLifeVars == <<timeVars, cliVars, brgVars, mcVars, rdVars, mctpVars, ctVars>>
afterHdmVars == <<ppVars, lifeVars, afterLifeVars>>
afterFzVars == <<hdmVars, afterHdmVars>>
extVars == <<fzVars, afterFzVars>>

vars == <<ports, conn, port_events,
          ha, c2h_req, c2h_rsp, h2c_req, h2c_rsp, h2t, t2h, s2m_ndr, s2m_drs, s2m_bisnp, env,
          cpu, p2c, cache, cc, cb, mem,
          vs, fm, cci, io,
          fz, tp,
          sw_hdm, dev_hdm,
          pp, mbox, wire,
          life,
          tm, cli, brg, mc, rd, mctp, ct>>

\* what the actions of one component leave alone
notConn == <<haVars, hostVars, vsVars, extVars>>
notHA == <<connVars, hostVars, vsVars, extVars>>
notHost == <<connVars, vsVars, extVars>>
notVS == <<connVars, haVars, hostVars, extVars>>
\* the frame of the actions that move fz and tp
notVS2 == <<connVars, haVars, hostVars, afterFzVars>>
notHdm == <<connVars, haVars, hostVars, vsVars, fzVars, afterHdmVars>>
notPP == <<connVars, haVars, hostVars, vsVars, fzVars, hdmVars, lifeVars, afterLifeVars>>

(***************************************************************************)
(* Switch connection manager                                               *)
(***************************************************************************)
Conns == 1..MaxConns
PortIds == 0..(NumPorts - 1)
NoPort == -1

\* What the first packet read from a new connection can be.  "eof" is a
\* zero-byte read (PacketReader raises), "malformed" a header that the
\* reader rejects, "non_sideband" any CXL.io/mem/cache/CCI packet,
\* "sideband_other" a sideband packet that is not CONNECTION_REQUEST.
FirstPacketKinds == {"eof", "malformed", "non_sideband", "sideband_other", "connection_request"}

\* Port indexes a connection_request can carry: the configured ones and
\* two that lie outside the port list.
RequestedPorts == 0..(NumPorts + 1)

FirstPackets == [kind : FirstPacketKinds \ {"connection_request"}, port : {0}]
                  \cup [kind : {"connection_request"}, port : RequestedPorts]

InitConn ==
    /\ ports = [p \in PortIds |-> [connected |-> FALSE, packet_processor |-> 0]]
    /\ conn = [c \in Conns |-> [pc |-> "none", port_index |-> NoPort, reply |-> "none",
                                first |-> [kind |-> "eof", port |-> 0]]]
    /\ port_events = <<>>

\* The decision of _wait_for_connection_request: TRUE when it returns the
\* port index, FALSE when it raises.
RequestValidMissingConnectedCheck(pkt) ==
    /\ pkt.kind = "connection_request"
    /\ ~(pkt.port < 0 \/ pkt.port >= NumPorts)

RequestValid(pkt) ==
    /\ pkt.kind = "connection_request"
    /\ ~(pkt.port < 0 \/ pkt.port >= NumPorts)
    /\ ~ports[pkt.port].connected

\* _update_connection_status
UpdateConnectionStatus(port_id, connected) ==
    /\ ports' = [ports EXCEPT ![port_id].connected = connected]
    /\ port_events' = Append(port_events, [port_id |-> port_id, connected |-> connected])

\* The TCP server accepts a socket and starts _handle_client, which blocks
\* in PacketReader.get_packet().
ClientConnects(c) ==
    /\ conn[c].pc = "none"
    /\ conn' = [conn EXCEPT ![c].pc = "wait_request"]
    /\ UNCHANGED <<ports, port_events, notConn>>

\* The first packet (or the end of the stream) arrives.  Either
\* _wait_for_connection_request returns the port index and the accept is
\* written, or it raises, port_index stays None and the reject is written.
HandleFirstPacket(c, pkt) ==
    /\ conn[c].pc = "wait_request"
    /\ IF RequestValid(pkt)
       THEN conn' = [conn EXCEPT ![c] = [pc |-> "confirming", port_index |-> pkt.port,
                                          reply |-> "connection_accept", first |-> pkt]]
       ELSE conn' = [conn EXCEPT ![c] = [pc |-> "closed", port_index |-> NoPort,
                                          reply |-> "connection_reject", first |-> pkt]]
    /\ UNCHANGED <<ports, port_events, notConn>>

\* writer.drain() of the accept returned: the port is marked connected.
MarkConnected(c) ==
    /\ conn[c].pc = "confirming"
    /\ UpdateConnectionStatus(conn[c].port_index, TRUE)
    /\ conn' = [conn EXCEPT ![c].pc = "starting"]
    /\ UNCHANGED notConn

\* writer.drain() of the accept raised (the peer is gone): the handler falls
\* to its tail with port_index set and marks the port disconnected.
ConfirmationFails(c) ==
    /\ conn[c].pc = "confirming"
    /\ UpdateConnectionStatus(conn[c].port_index, FALSE)
    /\ conn' = [conn EXCEPT ![c].pc = "closed"]
    /\ UNCHANGED notConn

\* _start_packet_processor up to its gather().
StartPacketProcessor(c) ==
    /\ conn[c].pc = "starting"
    /\ ports' = [ports EXCEPT ![conn[c].port_index].packet_processor = c]
    /\ conn' = [conn EXCEPT ![c].pc = "running"]
    /\ UNCHANGED <<port_events, notConn>>

\* The packet processor stops (peer disconnected): gather() returns, the
\* processor is detached and the port is marked disconnected.
ProcessorStops(c) ==
    /\ conn[c].pc = "running"
    /\ ports' = [ports EXCEPT ![conn[c].port_index].packet_processor = 0,
                              ![conn[c].port_index].connected = FALSE]
    /\ port_events' = Append(port_events, [port_id |-> conn[c].port_index, connected |-> FALSE])
    /\ conn' = [conn EXCEPT ![c].pc = "closed"]
    /\ UNCHANGED notConn

NextConn ==
    \/ \E c \in Conns : ClientConnects(c)
    \/ \E c \in Conns, pkt \in FirstPackets : HandleFirstPacket(c, pkt)
    \/ \E c \in Conns : MarkConnected(c)
    \/ \E c \in Conns : ConfirmationFails(c)
    \/ \E c \in Conns : StartPacketProcessor(c)
    \/ \E c \in Conns : ProcessorStops(c)

(***************************************************************************)
(* Home agent                                                              *)
(*                                                                         *)
(* Packets are records.  The field fid of a packet is a history field: the *)
(* number of the home-agent flow the packet belongs to.  It is copied, and *)
(* never read by the agent.                                                *)
(***************************************************************************)
\* The agent copies addresses and data and never computes with them: one
\* cacheline address and two cacheline contents tell all its behaviours apart.
Addrs == {0}
Data == {0, 1}
\* the cache lines of the host's memory map (line numbers, 64 bytes each)
Lines == {0, 1, 2, 3}
NoData == -1
NoAddr == -1
NoId == -1

\* CACHE_REQUEST_TYPE values the agent's host handler names
WriteTypes == {"WRITE", "WRITE_BACK", "WRITE_BACK_CLEAN", "UNCACHED_WRITE"}
ReadTypes == {"READ", "SNP_DATA", "SNP_INV", "SNP_CUR", "UNCACHED_READ"}
CacheRequestTypes == WriteTypes \cup ReadTypes

CacheRequest(type, addr, data, fid) ==
    [type |-> type, addr |-> addr, data |-> data, fid |-> fid]

\* line: the state of the snooped line when the cache answered (history field)
CacheResponse(status, data, fid, line) ==
    [status |-> status, data |-> data, fid |-> fid, line |-> line]

M2SPacket(cls, opcode, meta_field, meta_value, snp_type, addr, data, fid) ==
    [cls |-> cls, opcode |-> opcode, meta_field |-> meta_field, meta_value |-> meta_value,
     snp_type |-> snp_type, addr |-> addr, data |-> data,
     bi_id |-> NoId, bi_tag |-> NoId, fid |-> fid]

\* CxlMemBIRspPacket.create(opcode, bi_id, bi_tag)
BIRspPacket(opcode, bi_id, bi_tag, fid) ==
    [cls |-> "M2SBIRsp", opcode |-> opcode, meta_field |-> "NO_OP", meta_value |-> "INVALID",
     snp_type |-> "NO_OP", addr |-> NoAddr, data |-> NoData,
     bi_id |-> bi_id, bi_tag |-> bi_tag, fid |-> fid]

S2MPacket(cls, opcode, meta_value, addr, data, bi_id, bi_tag, fid) ==
    [cls |-> cls, opcode |-> opcode, meta_value |-> meta_value, addr |-> addr, data |-> data,
     bi_id |-> bi_id, bi_tag |-> bi_tag, fid |-> fid]

NoPacket == [type |-> "none", addr |-> NoAddr, data |-> NoData, fid |-> 0]

InitHA ==
    /\ ha = [state |-> "INIT", packet |-> NoPacket, cache_rsp |-> "BIRSP_I",
             birsp_sched |-> FALSE,
             pc |-> "loop", fn |-> "none", fc_host_run |-> FALSE, status |-> "none",
             flows |-> 0, snoop_line |-> "none"]
    /\ c2h_req = <<>>
    /\ c2h_rsp = <<>>
    /\ h2c_req = <<>>
    /\ h2c_rsp = <<>>
    /\ h2t = <<>>
    /\ t2h = <<>>
    /\ s2m_ndr = <<>>
    /\ s2m_drs = <<>>
    /\ s2m_bisnp = <<>>
    /\ env = [host_reqs |-> 0, bisnps |-> 0, dev_mem |-> [a \in Lines |-> 0]]

\* The agent's state and the queues its main loop reads and writes, as one
\* value that the handlers below transform in program order.
HaPack ==
    [ha |-> ha, h2t |-> h2t, rsp |-> c2h_rsp, snp |-> h2c_req, snprsp |-> h2c_rsp,
     ndr |-> s2m_ndr, drs |-> s2m_drs]

HaCommit(m) ==
    /\ ha' = m.ha
    /\ h2t' = m.h2t
    /\ c2h_rsp' = m.rsp
    /\ h2c_req' = m.snp
    /\ h2c_rsp' = m.snprsp
    /\ s2m_ndr' = m.ndr
    /\ s2m_drs' = m.drs

\* an exception leaves the main-loop task
Raise(m) == [m EXCEPT !.ha.pc = "crashed"]

\* The M2S fields _process_upstream_host_to_target_packets chooses for a
\* CacheRequest type: <<class, opcode, meta_field, meta_value, snp_type>>.
M2SFieldsWriteBackAsNormalWrite(type) ==
    CASE type \in {"WRITE", "WRITE_BACK", "WRITE_BACK_CLEAN"}
                                -> <<"M2SRwD", "MEM_WR", "NO_OP", "ANY", "NO_OP">>
      [] type = "UNCACHED_WRITE" -> <<"M2SRwD", "MEM_WR", "NO_OP", "ANY", "NO_OP">>
      [] type = "READ"          -> <<"M2SReq", "MEM_RD", "NO_OP", "ANY", "NO_OP">>
      [] type = "SNP_DATA"      -> <<"M2SReq", "MEM_RD", "META0_STATE", "SHARED", "SNP_DATA">>
      [] type = "SNP_INV"       -> <<"M2SReq", "MEM_INV", "META0_STATE", "ANY", "SNP_INV">>
      [] type = "SNP_CUR"       -> <<"M2SReq", "MEM_RD", "META0_STATE", "INVALID", "SNP_CUR">>
      [] type = "UNCACHED_READ" -> <<"M2SReq", "MEM_RD", "NO_OP", "ANY", "NO_OP">>

M2SFields(type) ==
    CASE type = "WRITE"         -> <<"M2SRwD", "MEM_WR", "NO_OP", "ANY", "NO_OP">>
      [] type \in {"WRITE_BACK", "WRITE_BACK_CLEAN"}
                                -> <<"M2SRwD", "MEM_WR", "META0_STATE", "INVALID", "NO_OP">>
      [] type = "UNCACHED_WRITE" -> <<"M2SRwD", "MEM_WR", "NO_OP", "ANY", "NO_OP">>
      [] type = "READ"          -> <<"M2SReq", "MEM_RD", "NO_OP", "ANY", "NO_OP">>
      [] type = "SNP_DATA"      -> <<"M2SReq", "MEM_RD", "META0_STATE", "SHARED", "SNP_DATA">>
      [] type = "SNP_INV"       -> <<"M2SReq", "MEM_INV", "META0_STATE", "ANY", "SNP_INV">>
      [] type = "SNP_CUR"       -> <<"M2SReq", "MEM_RD", "META0_STATE", "INVALID", "SNP_CUR">>
      [] type = "UNCACHED_READ" -> <<"M2SReq", "MEM_RD", "NO_OP", "ANY", "NO_OP">>

\* _process_upstream_host_to_target_packets
ProcessUpstreamHostToTargetPackets(m) ==
    LET cp == m.ha.packet
        f == M2SFields(cp.type)
    IN  IF m.ha.state # "START" THEN m
        ELSE IF cp.type \in WriteTypes
        THEN [m EXCEPT !.rsp = Append(@, CacheResponse("OK", NoData, cp.fid, "none")),
                       !.ha.state = "WAIT",
                       !.h2t = Append(@, M2SPacket(f[1], f[2], f[3], f[4], f[5],
                                                   cp.addr, cp.data, cp.fid))]
        ELSE IF cp.type \in ReadTypes
        THEN [m EXCEPT !.ha.state = "WAIT",
                       !.h2t = Append(@, M2SPacket(f[1], f[2], f[3], f[4], f[5],
                                                   cp.addr, NoData, cp.fid))]
        ELSE Raise(m)

\* _process_cxl_s2m_bisnp_packet from the cache's answer on: the BIRsp is
\* sent at once on a miss; otherwise it is scheduled and the snooped line is
\* written back.
BISnpAnswerNoWait(m) ==
    LET bp == m.ha.packet
        rsp == Head(m.snprsp)
        m1 == [m EXCEPT !.snprsp = Tail(@), !.ha.pc = "loop", !.ha.snoop_line = rsp.line]
    IN  IF rsp.status = "RSP_MISS"
        THEN [m1 EXCEPT !.ha.state = "INIT",
                        !.h2t = Append(@, BIRspPacket("BIRSP_I", bp.bi_id, bp.bi_tag, bp.fid))]
        ELSE [m1 EXCEPT !.ha.cache_rsp = IF rsp.status = "RSP_S" THEN "BIRSP_S" ELSE "BIRSP_I",
                        !.ha.birsp_sched = FALSE,
                        !.ha.state = "INIT",
                        !.h2t = Append(Append(@, M2SPacket("M2SRwD", "MEM_WR", "META0_STATE", "INVALID",
                                                   "NO_OP", bp.addr, rsp.data, bp.fid)),
                                       BIRspPacket(IF rsp.status = "RSP_S" THEN "BIRSP_S" ELSE "BIRSP_I",
                                                   bp.bi_id, bp.bi_tag, bp.fid))]

BISnpAnswer(m) ==
    LET bp == m.ha.packet
        rsp == Head(m.snprsp)
        m1 == [m EXCEPT !.snprsp = Tail(@), !.ha.pc = "loop", !.ha.snoop_line = rsp.line]
    IN  IF rsp.status = "RSP_MISS"
        THEN [m1 EXCEPT !.ha.state = "INIT",
                        !.h2t = Append(@, BIRspPacket("BIRSP_I", bp.bi_id, bp.bi_tag, bp.fid))]
        ELSE [m1 EXCEPT !.ha.cache_rsp = IF rsp.status = "RSP_S" THEN "BIRSP_S" ELSE "BIRSP_I",
                        !.ha.birsp_sched = TRUE,
                        !.ha.state = "WAIT",
                        !.h2t = Append(@, M2SPacket("M2SRwD", "MEM_WR", "META0_STATE", "INVALID",
                                                    "NO_OP", bp.addr, rsp.data, bp.fid))]

\* _process_cxl_s2m_bisnp_packet up to the cache's answer: the snoop is put
\* on the cache's request queue and the handler waits for the response.
ProcessCxlS2MBISnpPacket(m) ==
    LET bp == m.ha.packet
        type == IF bp.opcode = "BISNP_DATA" THEN "SNP_DATA" ELSE "SNP_INV"
        m1 == [m EXCEPT !.snp = Append(@, CacheRequest(type, bp.addr, NoData, bp.fid))]
    IN  IF m.ha.state # "START" THEN m
        ELSE IF bp.opcode \notin {"BISNP_DATA", "BISNP_INV"} THEN Raise(m)
        ELSE IF m1.snprsp = <<>> THEN [m1 EXCEPT !.ha.pc = "bisnp_rsp"]
        ELSE BISnpAnswer(m1)

\* the tail of _process_cxl_s2m_rsp_packet: the CacheResponse for an NDR
\* other than Cmp, with the data of the DRS when one belongs to it
RspDeliver(m, data) ==
    IF m.ha.status = "unbound" THEN Raise(m)
    ELSE [m EXCEPT !.rsp = Append(@, CacheResponse(m.ha.status, data, m.ha.packet.fid, "none")),
                   !.ha.state = "INIT", !.ha.pc = "loop"]

\* the spin of _process_cxl_s2m_rsp_packet on the DRS queue
RspTakeDrs(m) ==
    IF m.drs = <<>> THEN [m EXCEPT !.ha.pc = "drs_spin"]
    ELSE RspDeliver([m EXCEPT !.drs = Tail(@)], Head(m.drs).data)

\* _process_cxl_s2m_rsp_packet
ProcessCxlS2MRspPacket(m, ndr) ==
    LET status == CASE ndr.opcode = "CMP_S" -> "RSP_S"
                    [] ndr.opcode = "CMP_E" -> "RSP_I"
                    [] OTHER -> "unbound"
        m1 == [m EXCEPT !.ha.status = status]
    IN  IF ndr.opcode \notin {"CMP_S", "CMP_E", "CMP_M"}
        THEN IF m.ha.birsp_sched
             THEN IF "bi_id" \notin DOMAIN m.ha.packet THEN Raise(m)
                  ELSE [m EXCEPT !.h2t = Append(@, BIRspPacket(m.ha.cache_rsp, m.ha.packet.bi_id,
                                                               m.ha.packet.bi_tag, m.ha.packet.fid)),
                                 !.ha.birsp_sched = FALSE,
                                 !.ha.state = "INIT"]
             ELSE [m EXCEPT !.ha.state = "INIT"]
        ELSE IF ndr.meta_value = "ANY" THEN RspTakeDrs(m1)
        ELSE RspDeliver(m1, NoData)

\* _process_cxl_s2m_drs_packet
ProcessCxlS2MDrsPacket(m, drs) ==
    [m EXCEPT !.rsp = Append(@, CacheResponse("OK", drs.data, m.ha.packet.fid, "none")),
              !.ha.state = "INIT"]

\* main loop, else branch: "if not s2m_ndr.empty()"
NdrStage(m) ==
    IF m.ha.pc # "loop" \/ m.ndr = <<>> THEN m
    ELSE ProcessCxlS2MRspPacket([m EXCEPT !.ndr = Tail(@)], Head(m.ndr))

\* main loop, else branch: "if not s2m_drs.empty()"
DrsStage(m) ==
    IF m.ha.pc # "loop" \/ m.drs = <<>> THEN m
    ELSE ProcessCxlS2MDrsPacket([m EXCEPT !.drs = Tail(@)], Head(m.drs))

\* main loop, else branch: fn(self._cur_state.packet)
FnStage(m) ==
    IF m.ha.fn = "host" THEN ProcessUpstreamHostToTargetPackets(m)
    ELSE ProcessCxlS2MBISnpPacket(m)

\* Which queue the main loop serves in state INIT: "host", "bisnp" or "none".
PickQueueHostFirst(fc_host_run, host_empty, bisnp_empty) ==
    IF ~host_empty THEN "host"
    ELSE IF ~bisnp_empty THEN "bisnp"
    ELSE "none"

PickQueue(fc_host_run, host_empty, bisnp_empty) ==
    IF ~fc_host_run
    THEN IF ~host_empty THEN "host"
         ELSE IF ~bisnp_empty THEN "bisnp"
         ELSE "none"
    ELSE IF ~bisnp_empty THEN "bisnp"
         ELSE IF ~host_empty THEN "host"
         ELSE "none"

\* MainLoopPick that serves a queue in any state of the flow
MainLoopPickInAnyState ==
    /\ ha.pc = "loop"
    /\ LET q == PickQueue(ha.fc_host_run, c2h_req = <<>>, s2m_bisnp = <<>>)
       IN  /\ q # "none"
           /\ IF q = "host"
              THEN /\ ha' = [ha EXCEPT !.packet = [Head(c2h_req) EXCEPT !.fid = ha.flows + 1],
                                       !.flows = @ + 1,
                                       !.fn = "host", !.fc_host_run = TRUE, !.state = "START",
                                       !.pc = IF Head(c2h_req).type = "None" THEN "stopped" ELSE "loop"]
                   /\ c2h_req' = Tail(c2h_req)
                   /\ UNCHANGED s2m_bisnp
              ELSE /\ ha' = [ha EXCEPT !.packet = [Head(s2m_bisnp) EXCEPT !.fid = ha.flows + 1],
                                       !.flows = @ + 1,
                                       !.fn = "bisnp", !.fc_host_run = FALSE, !.state = "START"]
                   /\ s2m_bisnp' = Tail(s2m_bisnp)
                   /\ UNCHANGED c2h_req
    /\ UNCHANGED <<c2h_rsp, h2c_req, h2c_rsp, h2t, t2h, s2m_ndr, s2m_drs, env, notHA>>

\* One iteration of _home_agent_coherency_main_loop in state INIT: a queue is
\* chosen, its head becomes the current packet and the state becomes START.
MainLoopPick ==
    /\ ha.pc = "loop"
    /\ ha.state = "INIT"
    /\ LET q == PickQueue(ha.fc_host_run, c2h_req = <<>>, s2m_bisnp = <<>>)
       IN  /\ q # "none"
           /\ IF q = "host"
              THEN /\ ha' = [ha EXCEPT !.packet = [Head(c2h_req) EXCEPT !.fid = ha.flows + 1],
                                       !.flows = @ + 1,
                                       !.fn = "host", !.fc_host_run = TRUE, !.state = "START",
                                       !.pc = IF Head(c2h_req).type = "None" THEN "stopped" ELSE "loop"]
                   /\ c2h_req' = Tail(c2h_req)
                   /\ UNCHANGED s2m_bisnp
              ELSE /\ ha' = [ha EXCEPT !.packet = [Head(s2m_bisnp) EXCEPT !.fid = ha.flows + 1],
                                       !.flows = @ + 1,
                                       !.fn = "bisnp", !.fc_host_run = FALSE, !.state = "START"]
                   /\ s2m_bisnp' = Tail(s2m_bisnp)
                   /\ UNCHANGED c2h_req
    /\ UNCHANGED <<c2h_rsp, h2c_req, h2c_rsp, h2t, t2h, s2m_ndr, s2m_drs, env, notHA>>

\* One iteration in state START or WAIT: the flow's handler, then at most
\* one NDR, then at most one DRS.
MainLoopRun ==
    /\ ha.pc = "loop"
    /\ ha.state # "INIT"
    /\ HaCommit(DrsStage(NdrStage(FnStage(HaPack))))
    /\ UNCHANGED <<c2h_req, t2h, s2m_bisnp, env, notHA>>

\* The cache's answer to the snoop arrives: the BISnp handler resumes and the
\* iteration runs to its end.
MainLoopSnoopAnswered ==
    /\ ha.pc = "bisnp_rsp"
    /\ h2c_rsp # <<>>
    /\ HaCommit(DrsStage(NdrStage(BISnpAnswer(HaPack))))
    /\ UNCHANGED <<c2h_req, t2h, s2m_bisnp, env, notHA>>

\* The DRS the NDR handler spins on arrives: the handler resumes and the
\* iteration runs to its end.
MainLoopDrsArrived ==
    /\ ha.pc = "drs_spin"
    /\ s2m_drs # <<>>
    /\ HaCommit(DrsStage(RspTakeDrs([HaPack EXCEPT !.ha.pc = "loop"])))
    /\ UNCHANGED <<c2h_req, t2h, s2m_bisnp, env, notHA>>

\* _process_downstream_target_to_host_packets: one S2M packet is moved to
\* the channel of its class.
DispatchS2M ==
    /\ t2h # <<>>
    /\ LET p == Head(t2h)
       IN  /\ t2h' = Tail(t2h)
           /\ s2m_ndr' = IF p.cls = "S2MNDR" THEN Append(s2m_ndr, p) ELSE s2m_ndr
           /\ s2m_drs' = IF p.cls = "S2MDRS" THEN Append(s2m_drs, p) ELSE s2m_drs
           /\ s2m_bisnp' = IF p.cls = "S2MBISnp" THEN Append(s2m_bisnp, p) ELSE s2m_bisnp
    /\ UNCHANGED <<ha, c2h_req, c2h_rsp, h2c_req, h2c_rsp, h2t, env, notHA>>

(***************************************************************************)
(* The agent's surroundings: cache controller, coherency bridge, device.   *)
(***************************************************************************)
LineStates == {"I", "S", "E", "M"}

\* the cache controller puts a CacheRequest on the agent's request queue
CacheSendsRequest(type, addr, data) ==
    /\ env.host_reqs + env.bisnps < MaxFlows
    /\ c2h_req' = Append(c2h_req, CacheRequest(type, addr, IF type \in WriteTypes THEN data ELSE NoData, 0))
    /\ env' = [env EXCEPT !.host_reqs = @ + 1]
    /\ UNCHANGED <<ha, c2h_rsp, h2c_req, h2c_rsp, h2t, t2h, s2m_ndr, s2m_drs, s2m_bisnp, notHA>>

\* What the host cache answers to a snoop of a line it holds in state line
\* with content data (state I: the line is absent).
SnoopResponse(type, line, data, fid) ==
    IF line = "I" THEN CacheResponse("RSP_MISS", NoData, fid, line)
    ELSE IF type = "SNP_DATA" THEN CacheResponse("RSP_S", data, fid, line)
    ELSE IF type = "SNP_INV" THEN CacheResponse("RSP_I", IF line = "M" THEN data ELSE NoData, fid, line)
    ELSE CacheResponse("RSP_V", data, fid, line)

\* the cache answers the agent's snoop
CacheAnswersSnoop(line, data) ==
    /\ h2c_req # <<>>
    /\ h2c_req' = Tail(h2c_req)
    /\ h2c_rsp' = Append(h2c_rsp, SnoopResponse(Head(h2c_req).type, line, data, Head(h2c_req).fid))
    /\ UNCHANGED <<ha, c2h_req, c2h_rsp, h2t, t2h, s2m_ndr, s2m_drs, s2m_bisnp, env, notHA>>

Ndr(opcode, meta_value, fid) == S2MPacket("S2MNDR", opcode, meta_value, NoAddr, NoData, NoId, NoId, fid)
Drs(data, fid) == S2MPacket("S2MDRS", "MEM_DATA", "INVALID", NoAddr, data, NoId, NoId, fid)

\* DeviceReplies of a device that sends no data after the Cmp of a MemRd
\* SnpCur
DeviceRepliesCmpWithoutData(p, dev_mem, clean) ==
    IF p.cls = "M2SRwD" THEN <<Ndr("CMP", "INVALID", p.fid)>>
    ELSE IF p.cls = "M2SBIRsp" THEN <<>>
    ELSE IF p.opcode = "MEM_INV" THEN <<Ndr("CMP_E", "INVALID", p.fid)>>
    ELSE IF p.snp_type = "SNP_DATA"
         THEN <<Ndr(IF clean THEN "CMP_S" ELSE "CMP_E", "ANY", p.fid), Drs(dev_mem[p.addr], p.fid)>>
    ELSE IF p.snp_type = "SNP_CUR"
         THEN <<Ndr("CMP", "INVALID", p.fid)>>
    ELSE <<Drs(dev_mem[p.addr], p.fid)>>

\* The S2M packets the device sends for an M2S packet; clean tells whether
\* the device cache holds the line clean.  An NDR that a DRS follows carries
\* meta_value ANY.
DeviceReplies(p, dev_mem, clean) ==
    IF p.cls = "M2SRwD" THEN <<Ndr("CMP", "INVALID", p.fid)>>
    ELSE IF p.cls = "M2SBIRsp" THEN <<>>
    ELSE IF p.opcode = "MEM_INV" THEN <<Ndr("CMP_E", "INVALID", p.fid)>>
    ELSE IF p.snp_type = "SNP_DATA"
         THEN <<Ndr(IF clean THEN "CMP_S" ELSE "CMP_E", "ANY", p.fid), Drs(dev_mem[p.addr], p.fid)>>
    ELSE IF p.snp_type = "SNP_CUR"
         THEN <<Ndr("CMP", "ANY", p.fid), Drs(dev_mem[p.addr], p.fid)>>
    ELSE <<Drs(dev_mem[p.addr], p.fid)>>

\* the device serves the next M2S packet
DeviceServes(clean) ==
    /\ h2t # <<>>
    /\ LET p == Head(h2t)
       IN  /\ h2t' = Tail(h2t)
           /\ t2h' = t2h \o DeviceReplies(p, env.dev_mem, clean)
           /\ env' = IF p.cls = "M2SRwD" /\ p.data # NoData
                     THEN [env EXCEPT !.dev_mem[p.addr] = p.data]
                     ELSE env
    /\ UNCHANGED <<ha, c2h_req, c2h_rsp, h2c_req, h2c_rsp, s2m_ndr, s2m_drs, s2m_bisnp, notHA>>

\* the device issues a back-invalidate snoop
DeviceSendsBISnp(opcode, addr) ==
    /\ env.host_reqs + env.bisnps < MaxFlows
    /\ t2h' = Append(t2h, S2MPacket("S2MBISnp", opcode, "INVALID", addr, NoData,
                                    env.bisnps + 1, MaxFlows + env.bisnps + 1, 0))
    /\ env' = [env EXCEPT !.bisnps = @ + 1]
    /\ UNCHANGED <<ha, c2h_req, c2h_rsp, h2c_req, h2c_rsp, h2t, s2m_ndr, s2m_drs, s2m_bisnp, notHA>>

NextHA ==
    \/ MainLoopPick
    \/ MainLoopRun
    \/ MainLoopSnoopAnswered
    \/ MainLoopDrsArrived
    \/ DispatchS2M
    \/ \E type \in CacheRequestTypes, addr \in Addrs, data \in Data : CacheSendsRequest(type, addr, data)
    \/ \E line \in LineStates, data \in Data : CacheAnswersSnoop(line, data)
    \/ \E clean \in BOOLEAN : DeviceServes(clean)
    \/ \E opcode \in {"BISNP_DATA", "BISNP_INV"}, addr \in Addrs : DeviceSendsBISnp(opcode, addr)

(***************************************************************************)
(* Host: CPU, memory hub, cache controller, coherency bridge, memory       *)
(* controller.  Addresses are line numbers and sizes are counts of 64-byte *)
(* lines; a line's content is a number below LineMod.                      *)
(***************************************************************************)
\* memory ranges registered with the cache controller (add_mem_range)
MemType(a) ==
    CASE a = 0 -> "DRAM"
      [] a = 1 -> "CXL_UNCACHED"
      [] a = 2 -> "CXL_CACHED"
      [] a = 3 -> "CXL_CACHED_BI"
      [] OTHER -> "OOB"

OpSizes == {1, 2}
StoreKeys == Lines \X OpSizes
\* the lines a load or store of n lines at addr covers
Covered(addr, n) == addr..(addr + n - 1)
\* values a test program stores: n lines with distinct, non-zero contents
StoreValues(n) == IF n = 1 THEN {1, 2} ELSE {1 + 2 * LineMod, 2 + 1 * LineMod}

MemoryRequest(type, addr, data) == [type |-> type, addr |-> addr, data |-> data]
MemoryResponse(status, data) == [status |-> status, data |-> data]
NoResult == [status |-> "none", data |-> NoData]

InitHost ==
    /\ cpu = [pc |-> "idle", kind |-> "none", addr |-> 0, n |-> 1, value |-> 0,
              chunk |-> 0, acc |-> 0, wait |-> FALSE, ops |-> 0, res |-> NoResult,
              stored |-> [k \in StoreKeys |-> NoData]]
    /\ p2c = [req |-> <<>>, rsp |-> <<>>]
    /\ cache = <<>>
    /\ cc = [pc |-> "idle", req |-> MemoryRequest("none", 0, NoData), target |-> "none",
             victim_gone |-> FALSE, inv_done |-> FALSE, rsp_taken |-> 0, written_back |-> {}]
    /\ cb = [pc |-> "idle", req |-> <<>>, rsp |-> <<>>]
    /\ mem = [pc |-> "idle", coh_req |-> <<>>, coh_rsp |-> <<>>, prod_req |-> <<>>,
              prod_rsp |-> <<>>, dram |-> [a \in Lines |-> 0]]

\* CPU.store, size > 64: the k-th chunk is the low line of the value shifted
\* right k lines; size <= 64: the value is passed on as it is.
StoreChunkNoShift(value, k, n) == IF n = 1 THEN value ELSE value % LineMod

StoreChunk(value, k, n) == IF n = 1 THEN value ELSE (value \div (LineMod ^ k)) % LineMod

\* CPU.load_bytes: the k-th line read is appended to the bytes read so far,
\* which are then read as a little-endian number
LoadConcat(acc, k, data) == acc + data * (LineMod ^ k)

\* CxlMemoryHub.load / store: the MemoryRequest type for a range type
HubRequestType(kind, type) ==
    IF type = "CXL_UNCACHED"
    THEN (IF kind = "store" THEN "UNCACHED_WRITE" ELSE "UNCACHED_READ")
    ELSE (IF kind = "store" THEN "WRITE" ELSE "READ")

\* history: a store to addr, n lines, ended; what later loads must return
StoredAfter(stored, addr, n, value, ok) ==
    [k \in StoreKeys |->
        IF k = <<addr, n>> /\ ok THEN value
        ELSE IF Covered(k[1], k[2]) \cap Covered(addr, n) # {} THEN NoData
        ELSE stored[k]]

\* The hub call for the current chunk returned: data for a load (status
\* "false" when the address is in no range), status for a store.
CpuChunkDone(c, status, data) ==
    LET last == c.chunk + 1 = c.n
    IN  IF c.kind = "store"
        THEN IF status = "ok" /\ ~last
             THEN [c EXCEPT !.chunk = @ + 1, !.wait = FALSE]
             ELSE [c EXCEPT !.pc = "idle", !.wait = FALSE,
                            !.res = [status |-> status, data |-> NoData],
                            !.stored = StoredAfter(@, c.addr, c.n, c.value, status = "ok")]
        ELSE IF c.n = 1
             THEN [c EXCEPT !.pc = "idle", !.wait = FALSE,
                            !.res = [status |-> status, data |-> data]]
             ELSE LET acc == LoadConcat(c.acc, c.chunk, IF status = "ok" THEN data ELSE 0)
                  IN  IF last
                      THEN [c EXCEPT !.pc = "idle", !.wait = FALSE, !.acc = acc,
                                     !.res = [status |-> "ok", data |-> acc]]
                      ELSE [c EXCEPT !.chunk = @ + 1, !.wait = FALSE, !.acc = acc]

\* CPU.load(addr, size) or CPU.store(addr, size, value) is called
CpuStarts(kind, addr, n, value) ==
    /\ cpu.pc = "idle"
    /\ cpu.ops < MaxOps
    /\ cpu' = [cpu EXCEPT !.pc = kind, !.kind = kind, !.addr = addr, !.n = n, !.value = value,
                          !.chunk = 0, !.acc = 0, !.wait = FALSE, !.ops = @ + 1,
                          !.res = NoResult]
    /\ UNCHANGED <<p2c, cache, cc, cb, mem, haVars, notHost>>

\* CPU.store with size > 64 and an address or size that is no multiple of 64
CpuStoreMisaligned ==
    /\ cpu.pc = "idle"
    /\ cpu.ops < MaxOps
    /\ cpu' = [cpu EXCEPT !.kind = "store", !.ops = @ + 1,
                          !.res = [status |-> "raised", data |-> NoData]]
    /\ UNCHANGED <<p2c, cache, cc, cb, mem, haVars, notHost>>

\* the hub is called for the next chunk: a MemoryRequest goes to the cache
\* controller, or the hub returns False at once for an address in no range
CpuIssuesChunk ==
    /\ cpu.pc \in {"store", "load"}
    /\ ~cpu.wait
    /\ LET a == cpu.addr + cpu.chunk
           type == MemType(a)
       IN  IF type = "OOB"
           THEN /\ cpu' = CpuChunkDone(cpu, "false", NoData)
                /\ UNCHANGED p2c
           ELSE /\ p2c' = [p2c EXCEPT !.req = Append(@,
                              MemoryRequest(HubRequestType(cpu.kind, type), a,
                                            IF cpu.kind = "store"
                                            THEN StoreChunk(cpu.value, cpu.chunk, cpu.n)
                                            ELSE NoData))]
                /\ cpu' = [cpu EXCEPT !.wait = TRUE]
    /\ UNCHANGED <<cache, cc, cb, mem, haVars, notHost>>

\* the cache controller's MemoryResponse arrives
CpuTakesResponse ==
    /\ cpu.wait
    /\ p2c.rsp # <<>>
    /\ cpu' = CpuChunkDone(cpu, "ok", Head(p2c.rsp).data)
    /\ p2c' = [p2c EXCEPT !.rsp = Tail(@)]
    /\ UNCHANGED <<cache, cc, cb, mem, haVars, notHost>>

\* The cache controller's state and the queues it writes, as one value.
CcPack == [cc |-> cc, cache |-> cache, p2c |-> p2c, areq |-> c2h_req, cb |-> cb]

CcCommit(m) ==
    /\ cc' = m.cc
    /\ cache' = m.cache
    /\ p2c' = m.p2c
    /\ c2h_req' = m.areq
    /\ cb' = m.cb

CacheIndex(c, addr) ==
    IF \E i \in 1..Len(c) : c[i].addr = addr
    THEN CHOOSE i \in 1..Len(c) : c[i].addr = addr
    ELSE 0

RemoveAt(s, i) == SubSeq(s, 1, i - 1) \o SubSeq(s, i + 1, Len(s))

\* the line becomes the most recently used one
CachePut(c, addr, state, data) ==
    LET i == CacheIndex(c, addr)
    IN  Append(IF i = 0 THEN c ELSE RemoveAt(c, i),
               [addr |-> addr, state |-> state, data |-> data])

\* DRAM lines are kept coherent through the coherency bridge, CXL lines
\* through the home agent
CcTarget(addr) == IF MemType(addr) = "DRAM" THEN "bridge" ELSE "agent"

CcSend(m, type, addr, data, pc) ==
    LET r == CacheRequest(type, addr, data, 0)
    IN  IF CcTarget(addr) = "bridge"
        THEN [m EXCEPT !.cb.req = Append(@, r), !.cc.pc = pc, !.cc.target = "bridge"]
        ELSE [m EXCEPT !.areq = Append(@, r), !.cc.pc = pc, !.cc.target = "agent"]

CcReply(m, data) ==
    [m EXCEPT !.p2c.rsp = Append(@, MemoryResponse("OK", data)), !.cc.pc = "idle"]

\* CcEvicted of a cache that drops its victim whatever its state
CcEvictedDropsModified(m) ==
    IF /\ CacheIndex(m.cache, m.cc.req.addr) = 0
       /\ Len(m.cache) >= CacheWays
    THEN [m EXCEPT !.cache = Tail(@)]
    ELSE m

\* a miss in a full set replaces the least recently used line; a clean
\* victim is dropped at once
CcEvicted(m) ==
    IF /\ CacheIndex(m.cache, m.cc.req.addr) = 0
       /\ Len(m.cache) >= CacheWays
       /\ Head(m.cache).state # "M"
    THEN [m EXCEPT !.cache = Tail(@)]
    ELSE m

\* The cache controller serves its current MemoryRequest up to the reply or
\* up to the next CacheRequest it has to wait for.
CcServe(m) ==
    LET r == m.cc.req
        i == CacheIndex(m.cache, r.addr)
    IN  IF r.type \in {"UNCACHED_WRITE", "UNCACHED_READ"}
        THEN CcSend(m, r.type, r.addr, r.data, "unc")
        ELSE IF i # 0
        THEN IF r.type = "READ"
             THEN CcReply([m EXCEPT !.cache = CachePut(@, r.addr, m.cache[i].state,
                                                       m.cache[i].data)],
                          m.cache[i].data)
             ELSE IF m.cache[i].state = "S"
             THEN CcSend(m, "SNP_INV", r.addr, NoData, "inv")
             ELSE CcReply([m EXCEPT !.cache = CachePut(@, r.addr, "M", r.data)], NoData)
        ELSE IF Len(m.cache) >= CacheWays
        THEN CcSend([m EXCEPT !.cc.written_back = @ \cup {Head(m.cache).addr}],
                    "WRITE_BACK", Head(m.cache).addr, Head(m.cache).data, "wb")
        ELSE IF r.type = "READ"
        THEN CcSend(m, "SNP_DATA", r.addr, NoData, "fill")
        ELSE IF MemType(r.addr) \in {"DRAM", "CXL_CACHED_BI"} /\ ~m.cc.inv_done
        THEN CcSend(m, "SNP_INV", r.addr, NoData, "inv")
        ELSE CcReply([m EXCEPT !.cache = CachePut(@, r.addr, "M", r.data)], NoData)

CcRun(m) == CcServe(CcEvicted(m))

\* the cache controller takes the next MemoryRequest of the processor
CacheTakesRequest ==
    /\ cc.pc = "idle"
    /\ p2c.req # <<>>
    /\ CcCommit(CcRun([CcPack EXCEPT !.cc.req = Head(p2c.req), !.cc.inv_done = FALSE,
                                     !.p2c.req = Tail(@)]))
    /\ UNCHANGED <<cpu, mem, ha, c2h_rsp, h2c_req, h2c_rsp, h2t, t2h, s2m_ndr, s2m_drs,
                   s2m_bisnp, env, notHost>>

\* the CacheResponse the cache controller waits for arrives
CacheTakesResponse ==
    /\ cc.pc \in {"wb", "inv", "fill", "unc"}
    /\ IF cc.target = "agent" THEN Len(c2h_rsp) > cc.rsp_taken ELSE cb.rsp # <<>>
    /\ LET rsp == IF cc.target = "agent" THEN c2h_rsp[cc.rsp_taken + 1] ELSE Head(cb.rsp)
           m == IF cc.target = "agent"
                THEN [CcPack EXCEPT !.cc.rsp_taken = @ + 1]
                ELSE [CcPack EXCEPT !.cb.rsp = Tail(@)]
           i == CacheIndex(cache, cc.req.addr)
       IN  CcCommit(
             CASE cc.pc = "wb" -> CcRun([m EXCEPT !.cache = Tail(@)])
               [] cc.pc = "inv" ->
                    CcRun([m EXCEPT !.cc.inv_done = TRUE,
                                    !.cache = IF i = 0 THEN @
                                              ELSE [@ EXCEPT ![i].state = "E"]])
               [] cc.pc = "fill" ->
                    CcReply([m EXCEPT !.cache = CachePut(@, cc.req.addr, "S", rsp.data)],
                            rsp.data)
               [] cc.pc = "unc" -> CcReply(m, rsp.data))
    /\ UNCHANGED <<cpu, mem, ha, c2h_rsp, h2c_req, h2c_rsp, h2t, t2h, s2m_ndr, s2m_drs,
                   s2m_bisnp, env, notHost>>

\* the coherency bridge serves a CacheRequest for a DRAM line
BridgeServes ==
    /\ cb.pc = "idle"
    /\ cb.req # <<>>
    /\ LET r == Head(cb.req)
       IN  CASE r.type = "SNP_DATA" ->
                  /\ cb' = [cb EXCEPT !.req = Tail(@), !.pc = "wait_read"]
                  /\ mem' = [mem EXCEPT !.coh_req = Append(@, MemoryRequest("READ", r.addr, NoData))]
             [] r.type = "WRITE_BACK" ->
                  /\ cb' = [cb EXCEPT !.req = Tail(@),
                                      !.rsp = Append(@, CacheResponse("OK", NoData, 0, "none"))]
                  /\ mem' = [mem EXCEPT !.coh_req = Append(@, MemoryRequest("WRITE", r.addr, r.data))]
             [] OTHER ->
                  /\ cb' = [cb EXCEPT !.req = Tail(@),
                                      !.rsp = Append(@, CacheResponse("RSP_I", NoData, 0, "none"))]
                  /\ UNCHANGED mem
    /\ UNCHANGED <<cpu, p2c, cache, cc, haVars, notHost>>

\* the memory read of the bridge returns
BridgeReadDone ==
    /\ cb.pc = "wait_read"
    /\ mem.coh_rsp # <<>>
    /\ cb' = [cb EXCEPT !.pc = "idle",
                        !.rsp = Append(@, CacheResponse("RSP_S", Head(mem.coh_rsp).data, 0, "none"))]
    /\ mem' = [mem EXCEPT !.coh_rsp = Tail(@)]
    /\ UNCHANGED <<cpu, p2c, cache, cc, haVars, notHost>>

\* _process_memory_coh_bridge_requests: a request of the bridge is handed to
\* the memory controller (_write_memory, _read_memory)
HaMemTakes ==
    /\ mem.pc = "idle"
    /\ mem.coh_req # <<>>
    /\ mem' = [mem EXCEPT !.coh_req = Tail(@), !.prod_req = Append(@, Head(mem.coh_req)),
                          !.pc = IF Head(mem.coh_req).type = "WRITE"
                                 THEN "wait_write" ELSE "wait_read"]
    /\ UNCHANGED <<cpu, p2c, cache, cc, cb, haVars, notHost>>

\* MemoryController._process_memory_requests
MemoryControllerServes ==
    /\ mem.prod_req # <<>>
    /\ LET r == Head(mem.prod_req)
       IN  mem' = IF r.type = "WRITE"
                  THEN [mem EXCEPT !.prod_req = Tail(@), !.dram[r.addr] = r.data,
                                   !.prod_rsp = Append(@, MemoryResponse("OK", NoData))]
                  ELSE [mem EXCEPT !.prod_req = Tail(@),
                                   !.prod_rsp = Append(@, MemoryResponse("OK", mem.dram[r.addr]))]
    /\ UNCHANGED <<cpu, p2c, cache, cc, cb, haVars, notHost>>

\* the memory controller's response arrives: only a read is answered to
\* the bridge
HaMemDone ==
    /\ mem.pc \in {"wait_write", "wait_read"}
    /\ mem.prod_rsp # <<>>
    /\ mem' = [mem EXCEPT !.pc = "idle", !.prod_rsp = Tail(@),
                          !.coh_rsp = IF mem.pc = "wait_read"
                                      THEN Append(@, MemoryResponse("OK", Head(mem.prod_rsp).data))
                                      ELSE @]
    /\ UNCHANGED <<cpu, p2c, cache, cc, cb, haVars, notHost>>

NextHost ==
    \/ \E kind \in {"store", "load"}, addr \in Lines, n \in OpSizes :
         \E value \in (IF kind = "store" THEN StoreValues(n) ELSE {0}) :
            CpuStarts(kind, addr, n, value)
    \/ CpuStoreMisaligned
    \/ CpuIssuesChunk
    \/ CpuTakesResponse
    \/ CacheTakesRequest
    \/ CacheTakesResponse
    \/ BridgeServes
    \/ BridgeReadDone
    \/ HaMemTakes
    \/ MemoryControllerServes
    \/ HaMemDone
    \/ MainLoopPick
    \/ MainLoopRun
    \/ MainLoopDrsArrived
    \/ DispatchS2M
    \/ \E clean \in BOOLEAN : DeviceServes(clean)

(***************************************************************************)
(* The cache controller alone, driven as its tests drive it: the test      *)
(* answers the controller's CacheRequests and sends it snoops.             *)
(***************************************************************************)
SnoopTypes == {"SNP_DATA", "SNP_INV", "SNP_CUR"}

\* send_cached_mem_request, send_uncached_mem_request: the test takes the
\* controller's CacheRequest and answers it with CacheResponse(OK)
SendCachedMemRequestAnswers ==
    /\ c2h_req # <<>>
    /\ c2h_req' = Tail(c2h_req)
    /\ c2h_rsp' = Append(c2h_rsp, CacheResponse("OK", 0, 0, "none"))
    /\ UNCHANGED <<ha, h2c_req, h2c_rsp, h2t, t2h, s2m_ndr, s2m_drs, s2m_bisnp, env,
                   hostVars, notHost>>

\* send_cache_req: the test puts a snoop on the coherency agent's queue to
\* the cache, after its earlier requests and snoops have been answered
SendCacheReq(type, addr) ==
    /\ cpu.pc = "idle"
    /\ h2c_req = <<>>
    /\ Len(h2c_rsp) < MaxSnoops
    /\ h2c_req' = Append(h2c_req, CacheRequest(type, addr, NoData, 0))
    /\ UNCHANGED <<ha, c2h_req, c2h_rsp, h2c_rsp, h2t, t2h, s2m_ndr, s2m_drs, s2m_bisnp, env,
                   hostVars, notHost>>

\* CacheAfterSnoop of a cache that keeps a line it answered RSP_I for
CacheAfterSnoopKeepsLine(c, type, addr) ==
    LET i == CacheIndex(c, addr)
    IN  IF i = 0 THEN c
        ELSE IF type = "SNP_DATA" THEN [c EXCEPT ![i].state = "S"]
        ELSE c

\* the cache after a snoop of addr: SNP_INV removes the line, SNP_DATA
\* leaves it shared, SNP_CUR leaves it as it is
CacheAfterSnoop(c, type, addr) ==
    LET i == CacheIndex(c, addr)
    IN  IF i = 0 THEN c
        ELSE IF type = "SNP_INV" THEN RemoveAt(c, i)
        ELSE IF type = "SNP_DATA" THEN [c EXCEPT ![i].state = "S"]
        ELSE c

\* the cache controller serves a snoop between two requests of the
\* processor: it answers from the line it holds and updates the line
CacheServesSnoop ==
    /\ cc.pc = "idle"
    /\ h2c_req # <<>>
    /\ LET r == Head(h2c_req)
           i == CacheIndex(cache, r.addr)
       IN  /\ h2c_rsp' = Append(h2c_rsp,
                                SnoopResponse(r.type, IF i = 0 THEN "I" ELSE cache[i].state,
                                              IF i = 0 THEN NoData ELSE cache[i].data, r.fid))
           /\ cache' = CacheAfterSnoop(cache, r.type, r.addr)
    /\ h2c_req' = Tail(h2c_req)
    /\ UNCHANGED <<ha, c2h_req, c2h_rsp, h2t, t2h, s2m_ndr, s2m_drs, s2m_bisnp, env,
                   cpu, p2c, cc, cb, mem, notHost>>

NextSnoop ==
    \/ \E kind \in {"store", "load"}, addr \in Lines, n \in OpSizes :
         \E value \in (IF kind = "store" THEN StoreValues(n) ELSE {0}) :
            CpuStarts(kind, addr, n, value)
    \/ CpuStoreMisaligned
    \/ CpuIssuesChunk
    \/ CpuTakesResponse
    \/ CacheTakesRequest
    \/ CacheTakesResponse
    \/ BridgeServes
    \/ BridgeReadDone
    \/ HaMemTakes
    \/ MemoryControllerServes
    \/ HaMemDone
    \/ SendCachedMemRequestAnswers
    \/ \E type \in SnoopTypes, addr \in Lines : SendCacheReq(type, addr)
    \/ CacheServesSnoop

(***************************************************************************)
(* Virtual switch: vPPB bindings, routing of CXL.io configuration          *)
(* requests, and the fabric manager's CCI client that binds and unbinds    *)
(* over MCTP.  The topology is the one the switch tests build: port 0 is   *)
(* the USP, ports 1..3 are DSPs with one endpoint each, three vPPBs.       *)
(***************************************************************************)
PhysicalPorts == 0..(PhysicalPortCount - 1)
Vppbs == 0..(VppbCount - 1)
\* an entry of initial_bounds for a vPPB that starts unbound
Unbound == -1
PortType(p) == IF p = 0 THEN "USP" ELSE "DSP"

\* initial_bounds of the constructed switches: [-1, -1, -1], [1, 2, 3], [1, 2, -1]
InitialBounds ==
    {[v \in Vppbs |-> Unbound],
     [v \in Vppbs |-> v + 1],
     [v \in Vppbs |-> IF v = VppbCount - 1 THEN Unbound ELSE v + 1]}

\* arguments of the calls: one port index past the last port, one vPPB
\* index past the last vPPB
BindPorts == 0..PhysicalPortCount
UnbindVppbs == Vppbs \cup {VppbCount + 1}

\* BDFs the root port reads: the bridges and endpoints, and the BDFs no
\* function answers at
CfgReadTable == {<<1, 0, 0>>, <<2, 0, 0>>, <<2, 1, 0>>, <<2, 2, 0>>,
                 <<3, 0, 0>>, <<4, 0, 0>>, <<5, 0, 0>>}
CfgOobTable == {<<1, 0, 1>>, <<2, 3, 0>>, <<2, 0, 1>>, <<3, 0, 1>>, <<3, 1, 0>>,
                <<4, 0, 1>>, <<4, 1, 0>>, <<5, 0, 1>>, <<5, 1, 0>>, <<6, 0, 0>>}
Bdfs == CfgReadTable \cup CfgOobTable

\* bus numbers of the bridges: none before enumeration; after it the USP is
\* on bus 1, the vPPBs are devices of bus 2, the endpoint behind vPPB v is
\* on bus 3 + v
NoRegs ==
    [usp_bus |-> 0, secondary |-> 0, subordinate |-> 0,
     vppb |-> [v \in Vppbs |-> [secondary |-> 0, subordinate |-> 0]]]
EnumeratedRegs ==
    [usp_bus |-> 1, secondary |-> 2, subordinate |-> 2 + VppbCount,
     vppb |-> [v \in Vppbs |-> [secondary |-> 3 + v, subordinate |-> 3 + v]]]

VcsCall(op, port, vppb, err) == [op |-> op, port |-> port, vppb |-> vppb, err |-> err]
\* the locals of the client outside a call
FmIdle(b, result) ==
    [pc |-> "idle", op |-> "none", port |-> Unbound, vppb |-> 0, wait |-> FALSE,
     return_code |-> "none", result |-> result, pre |-> b]
Completion(bdf, status, data) == [bdf |-> bdf, status |-> status, data |-> data]
NoCompletion == Completion(<<0, 0, 0>>, "none", "none")
NoClientResult == <<"none", "none">>

InitVS(b) ==
    /\ vs = [initial |-> b, bound |-> b, calls |-> 0, regs |-> NoRegs,
             last |-> VcsCall("none", Unbound, 0, "none")]
    /\ fm = FmIdle(b, NoClientResult)
    /\ cci = [req |-> <<>>, rsp |-> <<>>,
              bg |-> [in_progress |-> FALSE, return_code |-> "SUCCESS"]]
    /\ io = [pending |-> <<>>, answered |-> NoCompletion]

\* CxlVirtualSwitch.bind_vppb: what the call raises
BindError(bound, port_index, vppb_index) ==
    IF port_index \notin PhysicalPorts THEN "port_index is out of bound"
    ELSE IF PortType(port_index) # "DSP" THEN "physical port is not DSP"
    ELSE IF bound[vppb_index] \notin {Unbound, port_index}
    THEN "vPPB is already bound"
    ELSE "none"

\* CxlVirtualSwitch.unbind_vppb: what the call raises
UnbindError(bound, vppb_index) ==
    IF vppb_index \notin Vppbs \/ bound[vppb_index] = Unbound
    THEN "vPPB is not bound to any physical port"
    ELSE "none"

\* the switch after bind_vppb(port, vppb, ld_id) or unbind_vppb(vppb)
VcsExecute(s, op, port, vppb) ==
    LET err == IF op = "bind" THEN BindError(s.bound, port, vppb)
               ELSE UnbindError(s.bound, vppb)
        b == IF err # "none" THEN s.bound
             ELSE IF op = "bind" THEN [s.bound EXCEPT ![vppb] = port]
             ELSE [s.bound EXCEPT ![vppb] = Unbound]
    IN  [s EXCEPT !.bound = b, !.calls = @ + 1,
                  !.last = VcsCall(op, port, vppb, err)]

\* vcs.bind_vppb(port_index, vppb_index, ld_id) called on the switch
BindVppb(port_index, vppb_index, ld_id) ==
    /\ fm.pc = "idle"
    /\ vs.calls < MaxCalls
    /\ vs' = VcsExecute(vs, "bind", port_index, vppb_index)
    /\ UNCHANGED <<fm, cci, io, notVS>>

\* vcs.unbind_vppb(vppb_index) called on the switch
UnbindVppb(vppb_index) ==
    /\ fm.pc = "idle"
    /\ vs.calls < MaxCalls
    /\ vs' = VcsExecute(vs, "unbind", Unbound, vppb_index)
    /\ UNCHANGED <<fm, cci, io, notVS>>

\* root_port_device.enumerate: the bridges get their bus numbers
Enumerate ==
    /\ vs.regs = NoRegs
    /\ vs' = [vs EXCEPT !.regs = EnumeratedRegs]
    /\ UNCHANGED <<fm, cci, io, notVS>>

InVppbRange(s, v, bus) ==
    s.regs.vppb[v].secondary <= bus /\ bus <= s.regs.vppb[v].subordinate

\* a configuration request to a function on a bus no bridge leads to is
\* answered as if an endpoint were there
RouteCfgAnyBusToEndpoint(s, bdf) ==
    LET bus == bdf[1]
        dev == bdf[2]
        fn == bdf[3]
    IN  IF bus = s.regs.usp_bus
        THEN IF dev = 0 /\ fn = 0 THEN Completion(bdf, "SC", "USP")
             ELSE Completion(bdf, "UR", "none")
        ELSE IF bus = s.regs.secondary
        THEN IF dev \in Vppbs /\ fn = 0 THEN Completion(bdf, "SC", "VPPB")
             ELSE Completion(bdf, "UR", "none")
        ELSE IF dev = 0 /\ fn = 0 THEN Completion(bdf, "SC", "ENDPOINT")
        ELSE Completion(bdf, "UR", "none")

\* The completion of a configuration request to bdf: the USP and the vPPBs
\* answer for themselves, a bus in a vPPB's secondary/subordinate range is
\* reached through the DSP bound to it, anything else is an Unsupported
\* Request.
RouteCfg(s, bdf) ==
    LET bus == bdf[1]
        dev == bdf[2]
        fn == bdf[3]
    IN  IF bus = s.regs.usp_bus
        THEN IF dev = 0 /\ fn = 0 THEN Completion(bdf, "SC", "USP")
             ELSE Completion(bdf, "UR", "none")
        ELSE IF bus = s.regs.secondary
        THEN IF dev \in Vppbs /\ fn = 0 THEN Completion(bdf, "SC", "VPPB")
             ELSE Completion(bdf, "UR", "none")
        ELSE IF \E v \in Vppbs : InVppbRange(s, v, bus)
        THEN LET v == CHOOSE w \in Vppbs : InVppbRange(s, w, bus)
             IN  IF s.bound[v] # Unbound /\ dev = 0 /\ fn = 0
                 THEN Completion(bdf, "SC", "ENDPOINT")
                 ELSE Completion(bdf, "UR", "none")
        ELSE Completion(bdf, "UR", "none")

\* root_port_device.read_vid_did(bdf): the request goes to the USP
RootPortSendsCfg(bdf) ==
    /\ vs.regs # NoRegs
    /\ io.pending = <<>>
    /\ io' = [pending |-> <<bdf>>, answered |-> NoCompletion]
    /\ UNCHANGED <<vs, fm, cci, notVS>>

\* the switch routes the request and the completion returns to the root port
SwitchRoutesCfg ==
    /\ io.pending # <<>>
    /\ io' = [pending |-> <<>>, answered |-> RouteCfg(vs, Head(io.pending))]
    /\ UNCHANGED <<vs, fm, cci, notVS>>

\* MctpCciApiClient.bind_vppb / unbind_vppb: the pair returned for the
\* return code the call ended with
ClientResultSuccessIsError(return_code) ==
    IF return_code \notin {"BACKGROUND_COMMAND_STARTED"}
    THEN <<return_code, "None">>
    ELSE <<return_code, return_code>>

ClientResult(return_code) ==
    IF return_code \notin {"SUCCESS", "BACKGROUND_COMMAND_STARTED"}
    THEN <<return_code, "None">>
    ELSE <<return_code, return_code>>

\* MctpCciApiClient.bind_vppb / unbind_vppb, up to the request put on
\* controller_to_ep by _send_request
FmSendsCommand(op, port, vppb, wait) ==
    /\ fm.pc = "idle"
    /\ vs.calls < MaxCalls
    /\ fm' = [pc |-> "sent", op |-> op, port |-> port, vppb |-> vppb, wait |-> wait,
              return_code |-> "none", result |-> NoClientResult, pre |-> vs.bound]
    /\ cci' = [cci EXCEPT !.req = Append(@, [op |-> op, port |-> port, vppb |-> vppb])]
    /\ UNCHANGED <<vs, io, notVS>>

\* The switch executes a Bind vPPB or Unbind vPPB command.  It answers at
\* once with the outcome, or with Background Command Started and leaves
\* the outcome in its background operation status.
SwitchExecutesCommand(at_once) ==
    /\ cci.req # <<>>
    /\ LET r == Head(cci.req)
           s == VcsExecute(vs, r.op, r.port, r.vppb)
           outcome == IF s.last.err # "none" THEN "INVALID_INPUT" ELSE "SUCCESS"
       IN  /\ vs' = s
           /\ cci' = [req |-> Tail(cci.req),
                      rsp |-> Append(cci.rsp, IF at_once THEN outcome
                                              ELSE "BACKGROUND_COMMAND_STARTED"),
                      bg |-> IF at_once THEN cci.bg
                             ELSE [in_progress |-> TRUE, return_code |-> outcome]]
    /\ UNCHANGED <<fm, io, notVS>>

\* the background operation of the switch ends
BackgroundOperationEnds ==
    /\ cci.bg.in_progress
    /\ cci' = [cci EXCEPT !.bg.in_progress = FALSE]
    /\ UNCHANGED <<vs, fm, io, notVS>>

\* bind_vppb / unbind_vppb: the response of _send_cci_command arrives; the
\* call returns unless it waits for completion
FmTakesResponse ==
    /\ fm.pc = "sent"
    /\ cci.rsp # <<>>
    /\ LET return_code == Head(cci.rsp)
       IN  fm' = IF fm.wait
                 THEN [fm EXCEPT !.pc = "poll", !.return_code = return_code]
                 ELSE FmIdle(vs.initial, ClientResult(return_code))
    /\ cci' = [cci EXCEPT !.rsp = Tail(@)]
    /\ UNCHANGED <<vs, io, notVS>>

\* _wait_for_background_operation, one turn of its loop: the Background
\* Operation Status command returns status_code; without a result the loop
\* goes on, with an operation in progress too, else the status command's
\* return code becomes the call's return code
FmPollsStatus(status_code) ==
    /\ fm.pc = "poll"
    /\ cci.req = <<>>
    /\ fm' = IF status_code # "SUCCESS" \/ cci.bg.in_progress
             THEN fm
             ELSE FmIdle(vs.initial, ClientResult(status_code))
    /\ UNCHANGED <<vs, cci, io, notVS>>

NextRoute ==
    \/ \E port_index \in BindPorts, vppb_index \in Vppbs :
          BindVppb(port_index, vppb_index, 0)
    \/ \E vppb_index \in UnbindVppbs : UnbindVppb(vppb_index)
    \/ Enumerate
    \/ \E bdf \in Bdfs : RootPortSendsCfg(bdf)
    \/ SwitchRoutesCfg

NextVS ==
    \/ \E port_index \in BindPorts, vppb_index \in Vppbs :
          BindVppb(port_index, vppb_index, 0)
    \/ \E vppb_index \in UnbindVppbs : UnbindVppb(vppb_index)
    \/ Enumerate
    \/ \E port \in BindPorts, vppb \in Vppbs, wait \in BOOLEAN :
          FmSendsCommand("bind", port, vppb, wait)
    \/ \E vppb \in UnbindVppbs, wait \in BOOLEAN :
          FmSendsCommand("unbind", Unbound, vppb, wait)
    \/ \E at_once \in BOOLEAN : SwitchExecutesCommand(at_once)
    \/ BackgroundOperationEnds
    \/ FmTakesResponse
    \/ \E status_code \in {"SUCCESS", "BUSY"} : FmPollsStatus(status_code)

(***************************************************************************)
(* Virtual switch: freeze state of the vPPBs and the forwarding of         *)
(* address-routed CXL.io requests and CXL.mem requests to the DSPs.        *)
(***************************************************************************)
\* what the host sends through a vPPB: CXL.io memory reads and writes
\* inside the vPPB's memory window, CXL.mem requests the USP's HDM decoder
\* targets at the vPPB
HostPacketKinds == {"MRd", "MWr", "MEM"}
HostPacket(kind, vppb) == [kind |-> kind, vppb |-> vppb]
Routed(pkt, outcome, port) == [pkt |-> pkt, outcome |-> outcome, port |-> port]
NoRouted == Routed(HostPacket("none", 0), "none", Unbound)

InitFreeze ==
    /\ fz = [v \in Vppbs |-> FALSE]
    /\ tp = [pending |-> <<>>, routed |-> NoRouted]

\* freeze_vppb(vppb_index)
FreezeVppb(vppb_index) ==
    /\ ~fz[vppb_index]
    /\ fz' = [fz EXCEPT ![vppb_index] = TRUE]
    /\ UNCHANGED <<tp, vsVars, notVS2>>

\* unfreeze_vppb(vppb_index)
UnfreezeVppb(vppb_index) ==
    /\ fz[vppb_index]
    /\ fz' = [fz EXCEPT ![vppb_index] = FALSE]
    /\ UNCHANGED <<tp, vsVars, notVS2>>

\* the host puts a packet addressed through a vPPB on the USP
HostSendsPacket(kind, vppb) ==
    /\ tp.pending = <<>>
    /\ tp' = [pending |-> <<HostPacket(kind, vppb)>>, routed |-> NoRouted]
    /\ UNCHANGED <<fz, vsVars, notVS2>>

\* the freeze state is not looked at
RoutePacketIgnoringFreeze(bound, frozen, pkt, ur) ==
    IF bound[pkt.vppb] = Unbound
    THEN Routed(pkt, IF pkt.kind = "MEM" THEN "dropped" ELSE "UR", Unbound)
    ELSE Routed(pkt, "delivered", bound[pkt.vppb])

\* What the switch does with a packet addressed through a vPPB: a frozen
\* vPPB keeps CXL.io MRd/MWr from the DSP (dropped silently, or answered
\* with Unsupported Request: ur), everything else goes to the DSP bound to
\* the vPPB.
RoutePacket(bound, frozen, pkt, ur) ==
    IF bound[pkt.vppb] = Unbound
    THEN Routed(pkt, IF pkt.kind = "MEM" THEN "dropped" ELSE "UR", Unbound)
    ELSE IF frozen[pkt.vppb] /\ pkt.kind \in {"MRd", "MWr"}
    THEN Routed(pkt, IF ur THEN "UR" ELSE "dropped", Unbound)
    ELSE Routed(pkt, "delivered", bound[pkt.vppb])

\* the switch routes the pending packet
SwitchRoutesPacket(ur) ==
    /\ tp.pending # <<>>
    /\ tp' = [pending |-> <<>>, routed |-> RoutePacket(vs.bound, fz, Head(tp.pending), ur)]
    /\ UNCHANGED <<fz, vsVars, notVS2>>

NextFreeze ==
    \/ \E port_index \in BindPorts, vppb_index \in Vppbs :
          BindVppb(port_index, vppb_index, 0)
    \/ \E vppb_index \in UnbindVppbs : UnbindVppb(vppb_index)
    \/ \E vppb_index \in Vppbs : FreezeVppb(vppb_index)
    \/ \E vppb_index \in Vppbs : UnfreezeVppb(vppb_index)
    \/ \E kind \in HostPacketKinds, vppb \in Vppbs : HostSendsPacket(kind, vppb)
    \/ \E ur \in BOOLEAN : SwitchRoutesPacket(ur)

(***************************************************************************)
(* HDM decoders: the switch's and the device's decoder managers.           *)
(* Addresses are byte addresses; a decoder at index i is committed at      *)
(* base i * DecoderSize.                                                   *)
(***************************************************************************)
\* INTERLEAVE_GRANULARITY: SIZE_256B .. SIZE_16KB
InterleaveGranularities == 0..6
\* INTERLEAVE_WAYS: WAY_1, WAY_2, WAY_4, WAY_8, WAY_16, WAY_3, WAY_6, WAY_12
InterleaveWays == {0, 1, 2, 3, 4, 8, 9, 10}

\* IW_TO_WAYS.calc: the number in the name of the encoding
IwToWays(iw) ==
    CASE iw = 0 -> 1
      [] iw = 1 -> 2
      [] iw = 2 -> 4
      [] iw = 3 -> 8
      [] iw = 4 -> 16
      [] iw = 8 -> 3
      [] iw = 9 -> 6
      [] iw = 10 -> 12

\* HdmDecoderManagerBase.get_decoder_count
get_decoder_count(decode_register_value) ==
    IF decode_register_value = 0 THEN 1
    ELSE IF decode_register_value <= 8 THEN decode_register_value * 2
    ELSE (decode_register_value - 9) * 4 + 20

DecoderCount == get_decoder_count(DecoderCountRegister)

\* arguments of commit: every index from one below the first decoder to
\* one past the decoder count
CommitIndexes == (0 - 1)..(DecoderCount + 1)

\* the target list of a decoder of the given ways: one port per way
TargetPorts(ways) == [i \in 1..ways |-> i]

DecoderInfo(size, base, dpa_skip, ig, iw, target_ports) ==
    [size |-> size, base |-> base, dpa_skip |-> dpa_skip, ig |-> ig, iw |-> iw,
     target_ports |-> target_ports]

\* DecoderInfo values committed at an index: decoder 0 takes every
\* granularity and every ways encoding, the others 256B and 1 or 3 ways
CommitInfos(index) ==
    {DecoderInfo(DecoderSize, (IF index \in 0..(DecoderCount - 1) THEN index ELSE 0) * DecoderSize,
                 0, ig, iw, TargetPorts(IwToWays(iw))) :
        ig \in (IF index = 0 THEN InterleaveGranularities ELSE {0}),
        iw \in (IF index = 0 THEN InterleaveWays ELSE {0, 8})}

\* SwitchHdmDecoder(index, size=0, base=0) and DeviceHdmDecoder(index, size=0, base=0)
SwitchHdmDecoder(index) ==
    [index |-> index, size |-> 0, base |-> 0, ig |-> 0, iw |-> 0, target_ports |-> <<>>]
DeviceHdmDecoder(index) ==
    [index |-> index, size |-> 0, base |-> 0, ig |-> 0, iw |-> 0, dpa_base |-> 0, dpa_skip |-> 0]

\* what a call returns or raises
Returned(v) == [kind |-> "value", value |-> v]
ReturnedBool(b) == [kind |-> IF b THEN "True" ELSE "False", value |-> 0]
ReturnedNone == [kind |-> "None", value |-> 0]
Raised(e) == [kind |-> e, value |-> 0]
HdmResult(op, arg, out) == [op |-> op, arg |-> arg, out |-> out]

InitHdm ==
    /\ sw_hdm = [decoders |-> [i \in 1..DecoderCount |-> SwitchHdmDecoder(i - 1)],
                 last |-> HdmResult("none", 0, ReturnedNone)]
    /\ dev_hdm = [decoders |-> [i \in 1..DecoderCount |-> DeviceHdmDecoder(i - 1)],
                  last |-> HdmResult("none", 0, ReturnedNone)]

\* self._decoders[index]: the position in the list, 0 for an IndexError
ListPosition(index, length) ==
    IF 0 <= index /\ index < length THEN index + 1
    ELSE IF 0 - length <= index /\ index < 0 THEN length + index + 1
    ELSE 0

\* HdmDecoderBase.is_hpa_in_range
is_hpa_in_range(decoder, hpa) == decoder.base <= hpa /\ hpa < decoder.base + decoder.size

\* HdmDecoderManagerBase.get_decoder_from_hpa: position of the first
\* decoder holding hpa, 0 for None
get_decoder_from_hpa(decoders, hpa) ==
    IF \E i \in 1..Len(decoders) : is_hpa_in_range(decoders[i], hpa)
    THEN CHOOSE i \in 1..Len(decoders) :
            /\ is_hpa_in_range(decoders[i], hpa)
            /\ \A j \in 1..(i - 1) : ~is_hpa_in_range(decoders[j], hpa)
    ELSE 0

\* HdmDecoderManagerBase.get_decoder_for_dpa: the first decoder of the list
get_decoder_for_dpa(decoders) == IF Len(decoders) > 0 THEN 1 ELSE 0

\* SwitchHdmDecoder.get_target
get_target(decoder, hpa) ==
    LET decoded_ig == 2 ^ (decoder.ig + 8)
        decoded_iw == 2 ^ decoder.iw
        target_index == (hpa \div decoded_ig) % decoded_iw
    IN  IF target_index < Len(decoder.target_ports)
        THEN Returned(decoder.target_ports[target_index + 1])
        ELSE Raised("IndexError")

\* SwitchHdmDecoderManager.commit: the manager after the call, last.out
\* TRUE, FALSE or the exception raised
SwitchCommitted(m, index, info) ==
    LET pos == ListPosition(index, Len(m.decoders))
    IN  IF index > Len(m.decoders)
        THEN [m EXCEPT !.last = HdmResult("commit", index, ReturnedBool(FALSE))]
        ELSE IF pos = 0
        THEN [m EXCEPT !.last = HdmResult("commit", index, Raised("IndexError"))]
        ELSE [m EXCEPT !.decoders[pos] =
                          [@ EXCEPT !.base = info.base, !.size = info.size, !.ig = info.ig,
                                    !.iw = info.iw, !.target_ports = info.target_ports],
                       !.last = HdmResult("commit", index, ReturnedBool(TRUE))]

SwitchCommit(index, info) ==
    /\ sw_hdm' = SwitchCommitted(sw_hdm, index, info)
    /\ UNCHANGED <<dev_hdm, notHdm>>

\* SwitchHdmDecoderManager.get_target
SwitchGetTarget(hpa) ==
    /\ LET pos == get_decoder_from_hpa(sw_hdm.decoders, hpa)
       IN  sw_hdm' = [sw_hdm EXCEPT !.last =
                         HdmResult("get_target", hpa,
                                   IF pos = 0 THEN ReturnedNone
                                   ELSE get_target(sw_hdm.decoders[pos], hpa))]
    /\ UNCHANGED <<dev_hdm, notHdm>>

\* HPAs looked up: the first and the last byte of chunk k of a decoder's
\* range, and an address above every range
ProbeHpas(decoders) ==
    {decoders[i].base + k * (2 ^ (decoders[i].ig + 8)) + off * ((2 ^ (decoders[i].ig + 8)) - 1) :
        i \in {j \in 1..Len(decoders) : decoders[j].size > 0}, k \in 0..MaxChunk, off \in {0, 1}}
    \cup {(DecoderCount + 1) * DecoderSize}

\* DeviceHdmDecoder.get_bit_range; the model's numbers are below 2^MaxBits
get_bit_range(number, start_bit, end_bit) ==
    LET shifted_number == number \div (2 ^ start_bit)
    IN  IF end_bit - start_bit + 1 >= MaxBits THEN shifted_number
        ELSE shifted_number % (2 ^ (end_bit - start_bit + 1))

\* DeviceHdmDecoder.get_dpa
get_dpa(decoder, hpa) ==
    LET hpa_offset == hpa - decoder.base
        dpa_offset_low == get_bit_range(hpa_offset, 0, decoder.ig + 7)
        dpa_offset_high ==
            IF decoder.iw < 8
            THEN get_bit_range(hpa_offset, decoder.ig + 8 + decoder.iw, 51)
            ELSE get_bit_range(hpa_offset, decoder.ig + decoder.iw, 51) \div 3
    IN  dpa_offset_low + dpa_offset_high * (2 ^ (decoder.ig + 8)) + decoder.dpa_base

\* DeviceHdmDecoderManager.get_hpa
ManagerGetHpa(decoders, dpa) ==
    LET pos == get_decoder_for_dpa(decoders)
    IN  IF pos = 0 THEN ReturnedNone
        ELSE IF decoders[pos].iw # 0 THEN ReturnedNone
        ELSE Returned(dpa + decoders[pos].base)

\* DeviceHdmDecoderManager.commit
DeviceCommitted(m, index, info) ==
    LET pos == ListPosition(index, Len(m.decoders))
    IN  IF pos = 0
        THEN [m EXCEPT !.last = HdmResult("commit", index, Raised("IndexError"))]
        ELSE [m EXCEPT !.decoders[pos] =
                          [@ EXCEPT !.dpa_base = 0, !.dpa_skip = info.dpa_skip,
                                    !.base = info.base, !.size = info.size,
                                    !.ig = info.ig, !.iw = info.iw],
                       !.last = HdmResult("commit", index, ReturnedBool(TRUE))]

DeviceCommit(index, info) ==
    /\ dev_hdm' = DeviceCommitted(dev_hdm, index, info)
    /\ UNCHANGED <<sw_hdm, notHdm>>

\* DeviceHdmDecoderManager.get_dpa(hpa), then get_hpa of the DPA returned
DeviceRoundTrip(hpa) ==
    /\ LET pos == get_decoder_from_hpa(dev_hdm.decoders, hpa)
       IN  dev_hdm' = [dev_hdm EXCEPT !.last =
                          HdmResult("get_hpa", hpa,
                                    IF pos = 0 THEN ReturnedNone
                                    ELSE ManagerGetHpa(dev_hdm.decoders,
                                                       get_dpa(dev_hdm.decoders[pos], hpa)))]
    /\ UNCHANGED <<sw_hdm, notHdm>>

NextSwitchHdm ==
    \/ \E index \in CommitIndexes : \E info \in CommitInfos(index) : SwitchCommit(index, info)
    \/ \E hpa \in ProbeHpas(sw_hdm.decoders) : SwitchGetTarget(hpa)

NextDeviceHdm ==
    \/ \E index \in CommitIndexes : \E info \in CommitInfos(index) : DeviceCommit(index, info)
    \/ \E hpa \in ProbeHpas(dev_hdm.decoders) : DeviceRoundTrip(hpa)

(***************************************************************************)
(* Packet processor of one connection, for a component with config-space,  *)
(* MMIO and CXL.mem mailboxes (type D2).  Its tasks are scheduled as       *)
(* asyncio schedules them: a task runs until it suspends, tasks that       *)
(* become runnable run in the order in which they were woken.              *)
(***************************************************************************)
Tids == 0..(MaxTid - 1)
\* FifoGroup of the component: the mailboxes in the order in which
\* _notify_outgoing_processors puts the notification
Mailboxes == <<"cfg_space", "mmio", "cxl_mem">>
MailboxNames == {Mailboxes[i] : i \in 1..Len(Mailboxes)}

\* packets: CXL.io requests and completions with their transaction id,
\* CXL.mem packets; n is the packet's place in the order of entry
PpPacket(kind, tid, n) == [kind |-> kind, tid |-> tid, n |-> n]
\* BaseSidebandPacket.create(SIDEBAND_TYPES.CONNECTION_DISCONNECTED)
DisconnectionNotification == PpPacket("CONNECTION_DISCONNECTED", 0, 0)
\* what the peer sends, and what a zero-byte read or an IO error leaves
PeerKinds == {"CFG", "MRD", "MWR", "CPL", "MEM"}
EndOfStream == {"ZERO_BYTES", "IO_ERROR"}
\* what the component puts on each of its outgoing mailboxes
ComponentKinds(q) ==
    CASE q = "cfg_space" -> {"CFG", "CPL"}
      [] q = "mmio" -> {"MRD", "MWR", "CPL"}
      [] q = "cxl_mem" -> {"MEM"}

\* transaction ids of a packet kind: a CXL.mem packet has none, and the
\* one of a posted write is not looked at
KindTids(kind) == IF kind \in {"MEM", "MWR"} THEN {0} ELSE Tids

\* the sublayer of a packet kind
Sublayer(kind) == IF kind = "MEM" THEN "CXL.mem" ELSE "CXL.io"

\* the processor after construction; limit bounds the packets that enter it
InitPPWith(limit) ==
    /\ pp = [status |-> "INIT", limit |-> limit,
             tlp_table |-> [t \in Tids |-> "none"],
             incoming |-> "read",
             outgoing |-> [q \in MailboxNames |-> "get"],
             ready |-> <<>>, drainers |-> <<>>, running |-> "none",
             entered |-> 0]
    /\ mbox = [incoming |-> [q \in MailboxNames |-> <<>>],
               outgoing |-> [q \in MailboxNames |-> <<>>]]
    /\ wire = [rx |-> <<>>, closed |-> FALSE, tx |-> <<>>]

InitPP == InitPPWith(MaxPackets)

\* CxlPacketProcessor._run up to _change_status_to_running: the tasks are
\* created and wait, each at its first read or get
PpRun ==
    /\ pp.status = "INIT"
    /\ pp' = [pp EXCEPT !.status = "RUNNING"]
    /\ UNCHANGED <<mbox, wire, notPP>>

\* the peer sends a packet
PeerSends(kind, tid) ==
    /\ pp.status # "INIT"
    /\ pp.running = "none"
    /\ ~wire.closed
    /\ pp.entered < pp.limit
    /\ wire' = [wire EXCEPT !.rx = Append(@, PpPacket(kind, tid, pp.entered + 1))]
    /\ pp' = [pp EXCEPT !.entered = @ + 1]
    /\ UNCHANGED <<mbox, notPP>>

\* the peer disconnects: the reader reads zero bytes or gets an IO error
PeerDisconnects(how) ==
    /\ pp.status # "INIT"
    /\ pp.running = "none"
    /\ ~wire.closed
    /\ wire' = [wire EXCEPT !.rx = Append(@, PpPacket(how, 0, 0)), !.closed = TRUE]
    /\ UNCHANGED <<pp, mbox, notPP>>

\* asyncio.Queue.put on an outgoing mailbox: the task waiting in get
\* becomes runnable
PutOutgoing(s, q, packet) ==
    [s EXCEPT !.m.outgoing[q] = Append(@, packet),
              !.p.outgoing[q] = IF @ = "get" THEN "ready" ELSE @,
              !.p.ready = IF s.p.outgoing[q] = "get" THEN Append(@, q) ELSE @]

\* the component puts a packet on one of its outgoing mailboxes
ComponentPuts(q, kind, tid) ==
    /\ pp.status # "INIT"
    /\ pp.running = "none"
    /\ pp.entered < pp.limit
    /\ LET s == PutOutgoing([p |-> [pp EXCEPT !.entered = @ + 1], m |-> mbox], q,
                            PpPacket(kind, tid, pp.entered + 1))
       IN  pp' = s.p /\ mbox' = s.m
    /\ UNCHANGED <<wire, notPP>>

\* PacketReader.get_packet: the exception it ends with, "none" for a packet
GetPacketRaises(packet) ==
    IF packet.kind = "ZERO_BYTES" THEN "UnboundLocalError"
    ELSE IF packet.kind = "IO_ERROR" THEN "PacketReader is aborted"
    ELSE "none"

\* _push_tlp_table_entry: the table, or the exception
PushTlpTableEntry(tlp_table, packet) ==
    IF tlp_table[packet.tid] # "none" THEN [error |-> "tid already exists", table |-> tlp_table]
    ELSE IF packet.kind = "CFG"
    THEN [error |-> "none", table |-> [tlp_table EXCEPT ![packet.tid] = "CFG"]]
    ELSE IF packet.kind \in {"MRD", "MWR"}
    THEN [error |-> "none", table |-> [tlp_table EXCEPT ![packet.tid] = "MMIO"]]
    ELSE [error |-> "pushing tid is not allowed", table |-> tlp_table]

\* _pop_tlp_table_entry that leaves the entry in the table
PopTlpTableEntryKeepingEntry(tlp_table, packet) ==
    IF tlp_table[packet.tid] = "none"
    THEN [error |-> "tid is not found", fifo_type |-> "none", table |-> tlp_table]
    ELSE [error |-> "none", fifo_type |-> tlp_table[packet.tid], table |-> tlp_table]

\* _pop_tlp_table_entry: the fifo type and the table, or the exception
PopTlpTableEntry(tlp_table, packet) ==
    IF tlp_table[packet.tid] = "none"
    THEN [error |-> "tid is not found", fifo_type |-> "none", table |-> tlp_table]
    ELSE [error |-> "none", fifo_type |-> tlp_table[packet.tid],
          table |-> [tlp_table EXCEPT ![packet.tid] = "none"]]

\* _notify_outgoing_processors that leaves out the CXL.mem mailbox
NotifyOutgoingProcessorsIoOnly(s, packet) ==
    PutOutgoing(PutOutgoing(s, "cfg_space", packet), "mmio", packet)

\* _notify_outgoing_processors
NotifyOutgoingProcessors(s, packet) ==
    PutOutgoing(PutOutgoing(PutOutgoing(s, "cfg_space", packet), "mmio", packet),
                "cxl_mem", packet)

\* _process_incoming_packets, one turn of its loop on the packet read: the
\* incoming mailbox the packet goes to and the table, or the exception
IncomingDispatch(tlp_table, packet) ==
    IF packet.kind = "CPL"
    THEN LET r == PopTlpTableEntry(tlp_table, packet)
         IN  [error |-> r.error, table |-> r.table,
              fifo |-> IF r.fifo_type = "CFG" THEN "cfg_space"
                       ELSE IF r.fifo_type = "MMIO" THEN "mmio" ELSE "none"]
    ELSE IF packet.kind = "CFG"
    THEN LET r == PushTlpTableEntry(tlp_table, packet)
         IN  [error |-> r.error, table |-> r.table,
              fifo |-> IF r.error = "none" THEN "cfg_space" ELSE "none"]
    ELSE IF packet.kind = "MRD"
    THEN LET r == PushTlpTableEntry(tlp_table, packet)
         IN  [error |-> r.error, table |-> r.table,
              fifo |-> IF r.error = "none" THEN "mmio" ELSE "none"]
    ELSE IF packet.kind = "MWR"
    THEN [error |-> "none", table |-> tlp_table, fifo |-> "mmio"]
    ELSE [error |-> "none", table |-> tlp_table, fifo |-> "cxl_mem"]

\* _process_incoming_packets: the task reads one packet and handles it; an
\* exception puts the disconnection notification on the outgoing mailboxes
\* and ends the task
IncomingTaskRuns ==
    /\ pp.status # "INIT"
    /\ pp.running = "none"
    /\ pp.incoming = "read"
    /\ wire.rx # <<>>
    /\ LET packet == Head(wire.rx)
           raised == GetPacketRaises(packet)
           d == IncomingDispatch(pp.tlp_table, packet)
       IN  /\ wire' = [wire EXCEPT !.rx = Tail(@)]
           /\ IF raised # "none" \/ d.error # "none"
              THEN LET s == NotifyOutgoingProcessors(
                               [p |-> [pp EXCEPT !.incoming = "stopped"], m |-> mbox],
                               DisconnectionNotification)
                   IN  pp' = s.p /\ mbox' = s.m
              ELSE /\ pp' = [pp EXCEPT !.tlp_table = d.table]
                   /\ mbox' = [mbox EXCEPT !.incoming[d.fifo] = Append(@, packet)]
    /\ UNCHANGED notPP

\* _process_outgoing_cfg_packets, _process_outgoing_mmio_packets and
\* _process_outgoing_cxl_mem_packets: what the task does to the table for
\* the packet it took from its mailbox
OutgoingDispatch(q, tlp_table, packet) ==
    IF q = "cxl_mem" THEN [error |-> "none", table |-> tlp_table]
    ELSE IF packet.kind = "CPL"
    THEN LET r == PopTlpTableEntry(tlp_table, packet)
         IN  [error |-> r.error, table |-> r.table]
    ELSE IF q = "mmio" /\ packet.kind = "MWR"
    THEN [error |-> "none", table |-> tlp_table]
    ELSE LET r == PushTlpTableEntry(tlp_table, packet)
         IN  [error |-> r.error, table |-> r.table]

\* the task of outgoing mailbox q runs: it is the task that runs already,
\* or no task runs and it is the first of the runnable ones.  It waits if
\* its mailbox is empty, ends at the notification, ends with the exception
\* of the table, or writes the packet; then drain() returns at once or
\* suspends the task.
OutgoingTaskRuns(q, drain_suspends) ==
    /\ \/ pp.running = q
       \/ pp.running = "none" /\ pp.ready # <<>> /\ Head(pp.ready) = q
    /\ LET ready == IF pp.running = q THEN pp.ready ELSE Tail(pp.ready)
           p0 == [pp EXCEPT !.ready = ready]
       IN  IF mbox.outgoing[q] = <<>>
           THEN /\ pp' = [p0 EXCEPT !.outgoing[q] = "get", !.running = "none"]
                /\ UNCHANGED <<mbox, wire>>
           ELSE LET packet == Head(mbox.outgoing[q])
                    d == OutgoingDispatch(q, pp.tlp_table, packet)
                IN  /\ mbox' = [mbox EXCEPT !.outgoing[q] = Tail(@)]
                    /\ IF packet = DisconnectionNotification
                       THEN /\ pp' = [p0 EXCEPT !.outgoing[q] = "stopped", !.running = "none"]
                            /\ UNCHANGED wire
                       ELSE IF d.error # "none"
                       THEN /\ pp' = [p0 EXCEPT !.outgoing[q] = "raised", !.running = "none"]
                            /\ UNCHANGED wire
                       ELSE /\ wire' = [wire EXCEPT !.tx = Append(@, packet)]
                            /\ pp' = [p0 EXCEPT
                                        !.tlp_table = d.table,
                                        !.outgoing[q] = IF drain_suspends THEN "drain" ELSE "run",
                                        !.running = IF drain_suspends THEN "none" ELSE q,
                                        !.drainers = IF drain_suspends THEN Append(@, q) ELSE @]
    /\ UNCHANGED notPP

\* the transport resumes writing: the tasks suspended in drain() become
\* runnable in the order in which they were suspended
WriterResumes ==
    /\ pp.running = "none"
    /\ pp.drainers # <<>>
    /\ pp' = [pp EXCEPT !.ready = @ \o pp.drainers, !.drainers = <<>>,
                        !.outgoing = [q \in MailboxNames |->
                                         IF pp.outgoing[q] = "drain" THEN "ready"
                                         ELSE pp.outgoing[q]]]
    /\ UNCHANGED <<mbox, wire, notPP>>

\* the connection is lost: drain() raises ConnectionResetError in the
\* tasks suspended in it
WriterFails ==
    /\ pp.running = "none"
    /\ pp.drainers # <<>>
    /\ wire.closed
    /\ pp' = [pp EXCEPT !.drainers = <<>>,
                        !.outgoing = [q \in MailboxNames |->
                                         IF pp.outgoing[q] = "drain" THEN "raised"
                                         ELSE pp.outgoing[q]]]
    /\ UNCHANGED <<mbox, wire, notPP>>

\* the tasks of _run have ended: every one returned, or one raised
TasksEnded(p) ==
    \/ p.incoming = "stopped" /\ \A q \in MailboxNames : p.outgoing[q] = "stopped"
    \/ \E q \in MailboxNames : p.outgoing[q] = "raised"

\* gather(*tasks) of _run ends and run() with it: the component is STOPPED
PpRunEnds ==
    /\ pp.status = "RUNNING"
    /\ pp.running = "none"
    /\ TasksEnded(pp)
    /\ pp' = [pp EXCEPT !.status = "STOPPED"]
    /\ UNCHANGED <<mbox, wire, notPP>>

NextPP ==
    \/ PpRun
    \/ \E kind \in PeerKinds : \E tid \in KindTids(kind) : PeerSends(kind, tid)
    \/ \E how \in EndOfStream : PeerDisconnects(how)
    \/ \E q \in MailboxNames : \E kind \in ComponentKinds(q) : \E tid \in KindTids(kind) :
          ComponentPuts(q, kind, tid)
    \/ IncomingTaskRuns
    \/ \E q \in MailboxNames, drain_suspends \in BOOLEAN : OutgoingTaskRuns(q, drain_suspends)
    \/ WriterResumes
    \/ WriterFails
    \/ PpRunEnds

(***************************************************************************)
(* Home agent as a runnable component: run(), wait_for_ready(), stop().    *)
(* A test starts the agent with run() and, in a second task, waits for it  *)
(* to be ready and stops it (wait_and_stop).                               *)
(***************************************************************************)
\* the None that _stop puts on a queue, as an element of that queue
StopRequest == CacheRequest("None", NoAddr, NoData, 0)
StopPacket == S2MPacket("None", "none", "INVALID", NoAddr, NoData, NoId, NoId, 0)
BridgeQueues == {"io", "coh"}

InitLifeWith(limit) ==
    life = [status |-> "INIT", ready |-> 0, run |-> "none", waiter |-> "none",
            stop_called |-> FALSE, limit |-> limit,
            tasks |-> [t \in BridgeQueues \cup {"t2h"} |-> "none"],
            request |-> [q \in BridgeQueues |-> <<>>],
            bridge_reqs |-> 0]

InitLife == InitLifeWith(LifeFlows)

\* every variable but life and the home agent's
notLife == <<connVars, hostVars, vsVars, fzVars, hdmVars, ppVars, afterLifeVars>>

\* the tasks of _run exist
TasksCreated == life.run \in {"starting", "gather"}

\* run() is called on a component in INIT; _run creates its four tasks and
\* calls _change_status_to_running
HaRun ==
    /\ life.run = "none"
    /\ life.status = "INIT"
    /\ life' = [life EXCEPT !.run = "starting",
                            !.tasks = [t \in BridgeQueues \cup {"t2h"} |-> "get"]]
    /\ UNCHANGED <<haVars, notLife>>

\* _change_status_to_running: the status becomes RUNNING and the ready
\* signal is raised
ChangeStatusToRunningTwice(l) ==
    [l EXCEPT !.status = "RUNNING", !.ready = @ + 2]

ChangeStatusToRunning(l) ==
    [l EXCEPT !.status = "RUNNING", !.ready = @ + 1]

\* _run goes on after _change_status_to_running and awaits its tasks
HaRunReady ==
    /\ life.run = "starting"
    /\ life' = [ChangeStatusToRunning(life) EXCEPT !.run = "gather"]
    /\ UNCHANGED <<haVars, notLife>>

\* wait_and_stop calls wait_for_ready
WaitForReady ==
    /\ life.waiter = "none"
    /\ life' = [life EXCEPT !.waiter = "waiting"]
    /\ UNCHANGED <<haVars, notLife>>

\* wait_for_ready returns once the ready signal has been raised
WaitForReadyReturns ==
    /\ life.waiter = "waiting"
    /\ life.ready > 0
    /\ life' = [life EXCEPT !.waiter = "ready"]
    /\ UNCHANGED <<haVars, notLife>>

\* stop() on the running agent: _stop puts None on the request queues of
\* the two memory bridges, on the cache's request queue and on
\* target_to_host
HaStop ==
    /\ life.waiter = "ready"
    /\ life.status = "RUNNING"
    /\ life' = [life EXCEPT !.waiter = "stopped", !.stop_called = TRUE,
                            !.request = [q \in BridgeQueues |-> Append(@[q], "None")]]
    /\ c2h_req' = Append(c2h_req, StopRequest)
    /\ t2h' = Append(t2h, StopPacket)
    /\ UNCHANGED <<ha, c2h_rsp, h2c_req, h2c_rsp, h2t, s2m_ndr, s2m_drs, s2m_bisnp, env, notLife>>

\* a memory bridge puts a MemoryRequest on its request queue
BridgeSendsRequest(q) ==
    /\ life.bridge_reqs < MaxBridgeRequests
    /\ life' = [life EXCEPT !.request[q] = Append(@, "MemoryRequest"),
                            !.bridge_reqs = @ + 1]
    /\ UNCHANGED <<haVars, notLife>>

\* _process_memory_io_bridge_requests and _process_memory_coh_bridge_requests,
\* one turn of the loop: None ends the task, a request is passed to the
\* memory controller and the task waits for the response
BridgeTaskTakes(q) ==
    /\ life.tasks[q] = "get"
    /\ life.request[q] # <<>>
    /\ life' = [life EXCEPT !.request[q] = Tail(@),
                            !.tasks[q] = IF Head(life.request[q]) = "None" THEN "done"
                                         ELSE "memory"]
    /\ UNCHANGED <<haVars, notLife>>

\* the memory controller's response arrives: _write_memory or _read_memory
\* returns and the loop goes on
BridgeTaskResumes(q) ==
    /\ life.tasks[q] = "memory"
    /\ life' = [life EXCEPT !.tasks[q] = "get"]
    /\ UNCHANGED <<haVars, notLife>>

\* _process_downstream_target_to_host_packets takes None and ends
DispatcherStops ==
    /\ life.tasks["t2h"] = "get"
    /\ t2h # <<>>
    /\ Head(t2h) = StopPacket
    /\ t2h' = Tail(t2h)
    /\ life' = [life EXCEPT !.tasks["t2h"] = "done"]
    /\ UNCHANGED <<ha, c2h_req, c2h_rsp, h2c_req, h2c_rsp, h2t, s2m_ndr, s2m_drs, s2m_bisnp, env, notLife>>

\* _process_downstream_target_to_host_packets takes an S2M packet
DispatcherTurn ==
    /\ life.tasks["t2h"] = "get"
    /\ t2h # <<>>
    /\ Head(t2h) # StopPacket
    /\ DispatchS2M

\* a step of the task of _home_agent_coherency_main_loop
MainLoopStep ==
    /\ TasksCreated
    /\ \/ MainLoopPick
       \/ MainLoopRun
       \/ MainLoopSnoopAnswered
       \/ MainLoopDrsArrived

\* every task of _run has ended without an exception
TasksDone ==
    /\ \A t \in BridgeQueues \cup {"t2h"} : life.tasks[t] = "done"
    /\ ha.pc = "stopped"

\* gather returns, then _run and run(): the component is STOPPED
HaRunReturns ==
    /\ life.run = "gather"
    /\ TasksDone
    /\ life' = [life EXCEPT !.run = "returned", !.status = "STOPPED"]
    /\ UNCHANGED <<haVars, notLife>>

\* the surroundings of the running agent
LifeSurroundings ==
    \/ /\ env.host_reqs + env.bisnps < life.limit
       /\ ~life.stop_called
       /\ \E type \in CacheRequestTypes, addr \in Addrs, data \in Data :
              CacheSendsRequest(type, addr, data)
    \/ \E line \in LineStates, data \in Data : CacheAnswersSnoop(line, data)
    \/ \E clean \in BOOLEAN : DeviceServes(clean)
    \/ /\ env.host_reqs + env.bisnps < life.limit
       /\ \E opcode \in {"BISNP_DATA", "BISNP_INV"}, addr \in Addrs :
              DeviceSendsBISnp(opcode, addr)
    \/ \E q \in BridgeQueues : ~life.stop_called /\ BridgeSendsRequest(q)

NextLife ==
    \/ HaRun
    \/ HaRunReady
    \/ WaitForReady
    \/ WaitForReadyReturns
    \/ HaStop
    \/ \E q \in BridgeQueues : BridgeTaskTakes(q)
    \/ \E q \in BridgeQueues : BridgeTaskResumes(q)
    \/ DispatcherStops
    \/ DispatcherTurn
    \/ MainLoopStep
    \/ HaRunReturns
    \/ LifeSurroundings

(***************************************************************************)
(***************************************************************************)
(* Home agent: read_cxl_mem and write_cxl_mem, and the passing of time.    *)
(* Three seconds without an S2M packet are one step of the surroundings.   *)
(***************************************************************************)
ApiResult(kind, value) == [kind |-> kind, value |-> value]
ApiNone == ApiResult("None", NoData)
NoApiCall == [pc |-> "idle", op |-> "none", result |-> ApiResult("none", NoData)]

InitTime == tm = [api |-> NoApiCall, calls |-> 0, timeouts |-> 0]

\* every variable but tm and the home agent's
notTime == <<connVars, hostVars, vsVars, fzVars, hdmVars, ppVars, lifeVars,
             cliVars, brgVars, mcVars, rdVars, mctpVars, ctVars>>

\* read_cxl_mem(addr, 64) and write_cxl_mem(addr, 64, value) up to the get()
\* on target_to_host: the alignment check, then the MemRd or MemWr is put
\* on host_to_target
ApiCall(op, aligned, value) ==
    /\ tm.api.pc = "idle"
    /\ tm.calls < MaxApiCalls
    /\ IF aligned
       THEN /\ tm' = [tm EXCEPT !.calls = @ + 1,
                                !.api = [NoApiCall EXCEPT !.pc = "wait", !.op = op]]
            /\ h2t' = Append(h2t, IF op = "read"
                                  THEN M2SPacket("M2SReq", "MEM_RD", "NO_OP", "ANY", "NO_OP",
                                                 0, NoData, 0)
                                  ELSE M2SPacket("M2SRwD", "MEM_WR", "NO_OP", "ANY", "NO_OP",
                                                 0, value, 0))
       ELSE /\ tm' = [tm EXCEPT !.calls = @ + 1,
                                !.api = [NoApiCall EXCEPT !.pc = "raised", !.op = op]]
            /\ UNCHANGED h2t
    /\ UNCHANGED <<ha, c2h_req, c2h_rsp, h2c_req, h2c_rsp, t2h, s2m_ndr, s2m_drs, s2m_bisnp,
                   env, notTime>>

\* What the call returns once get() has given it packet: write_cxl_mem looks
\* at no field of it and returns None; read_cxl_mem asserts that it is a
\* DRS and returns its data, shifted left by one line.
ApiReturn(op, packet) ==
    IF op = "write" THEN [pc |-> "returned", op |-> op, result |-> ApiNone]
    ELSE IF packet.cls = "S2MDRS"
    THEN [pc |-> "returned", op |-> op, result |-> ApiResult("int", packet.data * LineMod)]
    ELSE [pc |-> "raised", op |-> op, result |-> ApiResult("AssertionError", NoData)]

\* the call's get() on target_to_host returns the packet at its head
ApiTakes ==
    /\ tm.api.pc = "wait"
    /\ t2h # <<>>
    /\ tm' = [tm EXCEPT !.api = ApiReturn(tm.api.op, Head(t2h))]
    /\ t2h' = Tail(t2h)
    /\ UNCHANGED <<ha, c2h_req, c2h_rsp, h2c_req, h2c_rsp, h2t, s2m_ndr, s2m_drs, s2m_bisnp,
                   env, notTime>>

\* the main loop's flow waits for its S2M reply and every packet that has
\* arrived has been handled
FlowWaits ==
    /\ ha.state = "WAIT"
    /\ ha.pc = "loop"
    /\ s2m_ndr = <<>>
    /\ s2m_drs = <<>>

\* asyncio.timeout(3) around the call's get(): the call logs the timeout
\* and returns None
ApiTimeout(api) ==
    IF api.pc = "wait" THEN [api EXCEPT !.pc = "returned", !.result = ApiNone]
    ELSE api

\* Three seconds pass in which no S2M packet arrives, while a call or a
\* flow of the main loop waits for one.  The timeout of a waiting call
\* expires; the main loop has no timeout and goes on iterating.
SilenceElapses ==
    /\ t2h = <<>>
    /\ tm.api.pc = "wait" \/ FlowWaits
    /\ tm.timeouts < MaxTimeouts
    /\ tm' = [tm EXCEPT !.timeouts = @ + 1, !.api = ApiTimeout(@)]
    /\ UNCHANGED <<haVars, notTime>>

\* the cache controller and the device, offering TimedFlows flows
TimedSurroundings ==
    \/ /\ env.host_reqs + env.bisnps < TimedFlows
       /\ \E type \in CacheRequestTypes, addr \in Addrs, data \in Data :
              CacheSendsRequest(type, addr, data)
    \/ \E line \in LineStates, data \in Data : CacheAnswersSnoop(line, data)
    \/ \E clean \in BOOLEAN : DeviceServes(clean)
    \/ /\ env.host_reqs + env.bisnps < TimedFlows
       /\ \E opcode \in {"BISNP_DATA", "BISNP_INV"}, addr \in Addrs :
              DeviceSendsBISnp(opcode, addr)

NextTimed ==
    \/ MainLoopPick
    \/ MainLoopRun
    \/ MainLoopSnoopAnswered
    \/ MainLoopDrsArrived
    \/ DispatchS2M
    \/ TimedSurroundings
    \/ \E op \in {"read", "write"}, aligned \in BOOLEAN, value \in Data :
          ApiCall(op, aligned, IF op = "write" THEN value ELSE NoData)
    \/ ApiTakes
    \/ SilenceElapses

(***************************************************************************)
(* MctpCciApiClient: message tags of CCI requests and responses.  A        *)
(* request's id numbers the requests in the order they are sent; it is a   *)
(* history field that tells a response's request.                          *)
(***************************************************************************)
Callers == {1, 2}
Tags == 0 .. (TagMod - 1)
NoMessage == [category |-> "none", tag |-> NoId, id |-> NoId]
CciMessage(category, tag, id) == [category |-> category, tag |-> tag, id |-> id]
IdleCaller == [pc |-> "idle", tag |-> NoId, id |-> NoId, got |-> NoMessage]

\* __init__: _tag = 0, _responses = {}
InitClient ==
    cli = [tag |-> 0,
           responses |-> [t \in Tags |-> NoMessage],
           callers |-> [c \in Callers |-> IdleCaller],
           controller_to_ep |-> <<>>,
           ep_to_controller |-> <<>>,
           sent |-> 0, notified |-> 0, handled |-> 0]

\* every variable but cli
notClient == <<connVars, haVars, hostVars, vsVars, fzVars, hdmVars, ppVars, lifeVars,
               timeVars, brgVars, mcVars, rdVars, mctpVars, ctVars>>

\* _get_next_tag
GetNextTag(c) == [c EXCEPT !.tag = @ + 1]

\* _send_request up to the await in _get_response.  The tag counter is
\* stored in the header's one-byte message_tag; a counter that does not fit
\* is cut to a byte or the store raises (cut tells which), and req_tag is
\* read back from the header.
SendRequest(c, cut) ==
    /\ cli.callers[c].pc # "wait"
    /\ cli.tag < MaxRequests
    /\ cli.tag \in Tags => ~cut
    /\ LET tag == cli.tag
           next == GetNextTag(cli)
       IN  IF tag \notin Tags /\ ~cut
           THEN cli' = [next EXCEPT !.callers[c] = [IdleCaller EXCEPT !.pc = "raised"]]
           ELSE cli' = [next EXCEPT
                          !.sent = @ + 1,
                          !.controller_to_ep =
                              Append(@, CciMessage("REQUEST", tag % TagMod, cli.sent)),
                          !.callers[c] = [pc |-> "wait", tag |-> tag % TagMod,
                                          id |-> cli.sent, got |-> NoMessage]]
    /\ UNCHANGED <<notClient>>

\* _get_response: the caller leaves its wait loop when its tag is a key of
\* _responses and returns the entry, which stays in the dictionary
GetResponse(c) ==
    /\ cli.callers[c].pc = "wait"
    /\ cli.responses[cli.callers[c].tag] # NoMessage
    /\ cli' = [cli EXCEPT !.callers[c].pc = "done",
                          !.callers[c].got = cli.responses[cli.callers[c].tag]]
    /\ UNCHANGED <<notClient>>

\* the endpoint answers the next request with a response carrying its tag
EndpointAnswers ==
    /\ cli.controller_to_ep # <<>>
    /\ LET request == Head(cli.controller_to_ep)
       IN  cli' = [cli EXCEPT !.controller_to_ep = Tail(@),
                              !.ep_to_controller =
                                  Append(@, CciMessage("RESPONSE", request.tag, request.id))]
    /\ UNCHANGED <<notClient>>

\* the endpoint sends an event notification
EndpointNotifies ==
    /\ cli.notified < MaxNotifications
    /\ cli' = [cli EXCEPT !.notified = @ + 1,
                          !.ep_to_controller = Append(@, CciMessage("REQUEST", 0, NoId))]
    /\ UNCHANGED <<notClient>>

\* one iteration of _process_incoming_packets: a request is handed to the
\* notification handler, a response is stored under its tag
ProcessIncomingPackets ==
    /\ cli.ep_to_controller # <<>>
    /\ LET response == Head(cli.ep_to_controller)
       IN  IF response.category = "REQUEST"
           THEN cli' = [cli EXCEPT !.ep_to_controller = Tail(@), !.handled = @ + 1]
           ELSE cli' = [cli EXCEPT !.ep_to_controller = Tail(@),
                                   !.responses[response.tag] = response]
    /\ UNCHANGED <<notClient>>

NextClient ==
    \/ \E c \in Callers, cut \in BOOLEAN : SendRequest(c, cut)
    \/ \E c \in Callers : GetResponse(c)
    \/ EndpointAnswers
    \/ EndpointNotifies
    \/ ProcessIncomingPackets

(***************************************************************************)
(* Cache coherency bridge: requests of coherent devices (D2H) and the      *)
(* count of attached coherent devices.                                     *)
(***************************************************************************)
D2HReqOpcodes == {"CACHE_RD_SHARED", "CACHE_DIRTY_EVICT", "CACHE_RD_OWN_NO_DATA"}
D2HReq(opcode, addr) == [cls |-> "D2HReq", opcode |-> opcode, addr |-> addr, data |-> NoData]
D2HData(data) == [cls |-> "D2HData", opcode |-> "none", addr |-> NoAddr, data |-> data]
H2DRsp(opcode) == [cls |-> "H2DRsp", opcode |-> opcode, addr |-> NoAddr, data |-> NoData]
H2DData(data) == [cls |-> "H2DData", opcode |-> "none", addr |-> NoAddr, data |-> data]
NoD2H == [cls |-> "none", opcode |-> "none", addr |-> NoAddr, data |-> NoData]

\* the bridge after construction: no coherent device is counted
InitBridge ==
    brg = [count |-> 0, pc |-> "idle", cur |-> NoD2H,
           target_to_host |-> <<>>, host_to_target |-> <<>>,
           cache_request |-> <<>>, cache_response |-> <<>>, memory_request |-> <<>>,
           rejected |-> 0, d2h_reqs |-> 0]

\* every variable but brg
notBridge == <<connVars, haVars, hostVars, vsVars, fzVars, hdmVars, ppVars, lifeVars,
               timeVars, cliVars, mcVars, rdVars, mctpVars, ctVars>>

SetCacheCohDevCount(count) ==
    /\ brg' = [brg EXCEPT !.count = count]
    /\ UNCHANGED <<notBridge>>

\* a device puts a D2H request on the downstream CXL.cache fifo
DeviceSendsD2HReq(opcode, addr) ==
    /\ brg.d2h_reqs < MaxD2HReqs
    /\ brg' = [brg EXCEPT !.d2h_reqs = @ + 1,
                          !.target_to_host = Append(@, D2HReq(opcode, addr))]
    /\ UNCHANGED <<notBridge>>

\* the CacheRequest the bridge issues against the host cache for a D2H request
HostCacheRequestType(opcode) ==
    IF opcode = "CACHE_RD_SHARED" THEN "SNP_DATA" ELSE "SNP_INV"

\* what the bridge does with a D2H request when it serves it
ServeD2HReq(b, p) ==
    IF p.opcode = "CACHE_DIRTY_EVICT"
    THEN [b EXCEPT !.pc = "wait_data", !.cur = p,
                   !.host_to_target = Append(@, H2DRsp("GO_WRITE_PULL"))]
    ELSE [b EXCEPT !.pc = "wait_cache", !.cur = p,
                   !.cache_request =
                       Append(@, CacheRequest(HostCacheRequestType(p.opcode), p.addr, NoData, 0))]

\* TakesD2HReq of a bridge that serves a device's request whatever the count
TakesD2HReqAnyCount ==
    /\ brg.pc = "idle"
    /\ brg.target_to_host # <<>>
    /\ Head(brg.target_to_host).cls = "D2HReq"
    /\ brg' = ServeD2HReq([brg EXCEPT !.target_to_host = Tail(@)], Head(brg.target_to_host))
    /\ UNCHANGED <<notBridge>>

\* The bridge takes a D2H request from the downstream fifo.  With no
\* coherent device counted it rejects the request: nothing is issued and
\* nothing is answered.
TakesD2HReq ==
    /\ brg.pc = "idle"
    /\ brg.target_to_host # <<>>
    /\ Head(brg.target_to_host).cls = "D2HReq"
    /\ LET taken == [brg EXCEPT !.target_to_host = Tail(@)]
       IN  brg' = IF brg.count = 0
                  THEN [taken EXCEPT !.rejected = @ + 1]
                  ELSE ServeD2HReq(taken, Head(brg.target_to_host))
    /\ UNCHANGED <<notBridge>>

\* the host cache answers the bridge's request
HostCacheAnswers ==
    /\ brg.cache_request # <<>>
    /\ brg' = [brg EXCEPT !.cache_request = Tail(@),
                          !.cache_response = Append(@, CacheResponse("OK", NoData, 0, "none"))]
    /\ UNCHANGED <<notBridge>>

\* AnswersD2HReq of a bridge that sends no data packet after GO
AnswersD2HReqWithoutData(data) ==
    /\ brg.pc = "wait_cache"
    /\ brg.cache_response # <<>>
    /\ brg' = [brg EXCEPT !.pc = "idle", !.cur = NoD2H,
                          !.cache_response = Tail(@),
                          !.host_to_target = Append(@, H2DRsp("GO"))]
    /\ UNCHANGED <<notBridge>>

\* the bridge answers the device: GO, and for a read a data packet
AnswersD2HReq(data) ==
    /\ brg.pc = "wait_cache"
    /\ brg.cache_response # <<>>
    /\ brg' = [brg EXCEPT !.pc = "idle", !.cur = NoD2H,
                          !.cache_response = Tail(@),
                          !.host_to_target =
                              @ \o IF brg.cur.opcode = "CACHE_RD_SHARED"
                                   THEN <<H2DRsp("GO"), H2DData(data)>>
                                   ELSE <<H2DRsp("GO")>>]
    /\ UNCHANGED <<notBridge>>

\* the device takes the packets the bridge has sent; after GO_WRITE_PULL it
\* sends the evicted line
DeviceTakesH2D(data) ==
    /\ brg.host_to_target # <<>>
    /\ brg' = [brg EXCEPT !.host_to_target = Tail(@),
                          !.target_to_host =
                              IF Head(brg.host_to_target).opcode = "GO_WRITE_PULL"
                              THEN <<D2HData(data)>> \o @ ELSE @]
    /\ UNCHANGED <<notBridge>>

\* the evicted line arrives: the bridge writes it to memory
TakesD2HData ==
    /\ brg.pc = "wait_data"
    /\ brg.target_to_host # <<>>
    /\ Head(brg.target_to_host).cls = "D2HData"
    /\ brg' = [brg EXCEPT !.pc = "idle", !.cur = NoD2H,
                          !.target_to_host = Tail(@),
                          !.memory_request =
                              <<[type |-> "WRITE", addr |-> brg.cur.addr,
                                 data |-> Head(brg.target_to_host).data]>>]
    /\ UNCHANGED <<notBridge>>

NextBridge ==
    \/ \E count \in 0 .. MaxCohDevs : SetCacheCohDevCount(count)
    \/ \E opcode \in D2HReqOpcodes, addr \in Addrs : DeviceSendsD2HReq(opcode, addr)
    \/ TakesD2HReq
    \/ HostCacheAnswers
    \/ \E data \in Data : AnswersD2HReq(data)
    \/ \E data \in Data : DeviceTakesH2D(data)
    \/ TakesD2HData

(***************************************************************************)
(* Memory controller with byte addresses: MemoryRequests of any address    *)
(* and size, as HomeAgent._write_memory and _read_memory pass them on.     *)
(* A line has LineBytes bytes and a byte ByteMod values.                   *)
(***************************************************************************)
FileAddrs == 0 .. (MemorySize - 1)
SizedRequest(type, addr, size, data) == [type |-> type, addr |-> addr, size |-> size, data |-> data]
SizedResponse(status, data) == [status |-> status, data |-> data]
Aligned(addr, size) == addr % LineBytes = 0 /\ size % LineBytes = 0

\* FileAccessor(memory_filename, memory_size): a file of zero bytes
InitMemoryController ==
    mc = [file |-> [a \in FileAddrs |-> 0],
          request |-> <<>>, response |-> <<>>,
          pc |-> "running", waiting |-> FALSE, got |-> SizedResponse("none", NoData),
          requests |-> 0]

\* every variable but mc
notMemoryController == <<connVars, haVars, hostVars, vsVars, fzVars, hdmVars, ppVars, lifeVars,
                         timeVars, cliVars, brgVars, rdVars, mctpVars, ctVars>>

\* FileAccessor.write(addr, data, size): size bytes of data, lowest first
FileWrite(file, addr, data, size) ==
    [a \in FileAddrs |->
        IF a >= addr /\ a < addr + size THEN (data \div (ByteMod ^ (a - addr))) % ByteMod
        ELSE file[a]]

\* FileAccessor.read(addr, size)
RECURSIVE FileRead(_, _, _)
FileRead(file, addr, size) ==
    IF size = 0 THEN 0 ELSE file[addr] + ByteMod * FileRead(file, addr + 1, size - 1)

\* _write_memory and _read_memory up to the get() on the response queue:
\* the MemoryRequest carries the upstream packet's addr and size as they are
HaPutsMemoryRequest(type, addr, size, data) ==
    /\ ~mc.waiting
    /\ mc.requests < MaxMemRequests
    /\ addr + size <= MemorySize
    /\ mc' = [mc EXCEPT !.requests = @ + 1, !.waiting = TRUE,
                        !.request = Append(@, SizedRequest(type, addr, size, data))]
    /\ UNCHANGED <<notMemoryController>>

\* One iteration of _process_memory_requests.  The controller hands addr
\* and size to the file accessor unchecked and answers OK.  What the
\* accessor does with a misaligned access is its own matter: it performs
\* the access, or it raises and the task ends (raises tells which).
ProcessMemoryRequests(raises) ==
    /\ mc.pc = "running"
    /\ mc.request # <<>>
    /\ raises => ~Aligned(Head(mc.request).addr, Head(mc.request).size)
    /\ LET packet == Head(mc.request)
           taken == [mc EXCEPT !.request = Tail(@)]
       IN  mc' = IF raises THEN [taken EXCEPT !.pc = "raised"]
                 ELSE IF packet.type = "WRITE"
                 THEN [taken EXCEPT
                         !.file = FileWrite(@, packet.addr, packet.data, packet.size),
                         !.response = Append(@, SizedResponse("OK", NoData))]
                 ELSE [taken EXCEPT
                         !.response = Append(@, SizedResponse("OK",
                                          FileRead(mc.file, packet.addr, packet.size)))]
    /\ UNCHANGED <<notMemoryController>>

\* _write_memory and _read_memory after the get(): the response is taken
\* (_write_memory asserts that its status is OK)
HaGetsMemoryResponse ==
    /\ mc.waiting
    /\ mc.response # <<>>
    /\ mc' = [mc EXCEPT !.waiting = FALSE, !.got = Head(mc.response), !.response = Tail(@)]
    /\ UNCHANGED <<notMemoryController>>

NextMemoryController ==
    \/ \E addr \in FileAddrs, size \in 1 .. MemorySize, data \in 0 .. (ByteMod ^ LineBytes - 1) :
          \/ HaPutsMemoryRequest("WRITE", addr, size, data % (ByteMod ^ size))
          \/ HaPutsMemoryRequest("READ", addr, size, NoData)
    \/ \E raises \in BOOLEAN : ProcessMemoryRequests(raises)
    \/ HaGetsMemoryResponse


(***************************************************************************)
(* Home agent: every NDR opcode as the device's reply, under a fair event  *)
(* loop.                                                                   *)
(***************************************************************************)
\* the device answers the next M2S request with an NDR Cmp_M and no data
DeviceServesCmpM ==
    /\ h2t # <<>>
    /\ Head(h2t).cls = "M2SReq"
    /\ h2t' = Tail(h2t)
    /\ t2h' = Append(t2h, Ndr("CMP_M", "INVALID", Head(h2t).fid))
    /\ UNCHANGED <<ha, c2h_req, c2h_rsp, h2c_req, h2c_rsp, s2m_ndr, s2m_drs, s2m_bisnp, env, notHA>>

\* the cache controller and the device, offering ReplyFlows flows
ReplySurroundings ==
    \/ /\ env.host_reqs + env.bisnps < ReplyFlows
       /\ \E type \in CacheRequestTypes, addr \in Addrs, data \in Data :
              CacheSendsRequest(type, addr, data)
    \/ \E line \in LineStates, data \in Data : CacheAnswersSnoop(line, data)
    \/ \E clean \in BOOLEAN : DeviceServes(clean)
    \/ DeviceServesCmpM
    \/ /\ env.host_reqs + env.bisnps < ReplyFlows
       /\ \E opcode \in {"BISNP_DATA", "BISNP_INV"}, addr \in Addrs :
              DeviceSendsBISnp(opcode, addr)

\* the device answers the next M2S packet, one way or the other
DeviceAnswers == (\E clean \in BOOLEAN : DeviceServes(clean)) \/ DeviceServesCmpM

NextReplies ==
    \/ MainLoopPick
    \/ MainLoopRun
    \/ MainLoopSnoopAnswered
    \/ MainLoopDrsArrived
    \/ DispatchS2M
    \/ ReplySurroundings

\* The event loop runs every task that can run: the main loop (which yields
\* with sleep(0) in every iteration), the dispatcher of S2M packets, and
\* the cache and the device on the other ends of the queues.
FairReplies ==
    /\ WF_vars(MainLoopPick)
    /\ WF_vars(MainLoopRun)
    /\ WF_vars(MainLoopSnoopAnswered)
    /\ WF_vars(MainLoopDrsArrived)
    /\ WF_vars(DispatchS2M)
    /\ WF_vars(DeviceAnswers)
    /\ WF_vars(\E line \in LineStates, data \in Data : CacheAnswersSnoop(line, data))

(***************************************************************************)
(* MCTP connection manager: one switch port for the controller.            *)
(***************************************************************************)
MctpConns == 1 .. MaxMctpConns

\* MctpPort(): not connected, no packet processor
InitMctp ==
    mctp = [connected |-> FALSE, packet_processor |-> 0,
            conns |-> [c \in MctpConns |-> "none"]]

\* every variable but mctp
notMctp == <<connVars, haVars, hostVars, vsVars, fzVars, hdmVars, ppVars, lifeVars,
             timeVars, cliVars, brgVars, mcVars, rdVars, ctVars>>

\* _handle_client for a new socket, up to the end of the handler when the
\* connection is refused, and up to the await of packet_processor.run()
\* when it is accepted.  The statement after the try block clears the flag
\* on both paths.
MctpHandleClient(c) ==
    /\ mctp.conns[c] = "none"
    /\ IF mctp.connected
       THEN mctp' = [mctp EXCEPT !.connected = FALSE, !.conns[c] = "refused"]
       ELSE mctp' = [mctp EXCEPT !.connected = TRUE, !.packet_processor = c,
                                 !.conns[c] = "running"]
    /\ UNCHANGED <<notMctp>>

\* packet_processor.run() returns or raises: the rest of
\* _start_packet_processor and of _handle_client
MctpProcessorEnds(c, raised) ==
    /\ mctp.conns[c] = "running"
    /\ mctp' = [mctp EXCEPT !.connected = FALSE,
                            !.packet_processor = IF raised THEN @ ELSE 0,
                            !.conns[c] = "closed"]
    /\ UNCHANGED <<notMctp>>

NextMctp ==
    \/ \E c \in MctpConns : MctpHandleClient(c)
    \/ \E c \in MctpConns, raised \in BOOLEAN : MctpProcessorEnds(c, raised)

(***************************************************************************)
(* Packet reader on a byte stream.  A packet is a system header of         *)
(* HeaderSize bytes, <<payload_type, low byte of payload_length, high byte *)
(* of payload_length>>, followed by its body; payload_length counts the    *)
(* header.  StreamReader.read(n) returns between one and n of the bytes    *)
(* that have arrived, as the stream was split on its way.                  *)
(***************************************************************************)
\* PAYLOAD_TYPE values on the wire (two of them stand for all)
PayloadTypes == {1, 2}
BodyBytes == {1, 2}
BodyLengths == 1 .. MaxBody
Bodies == UNION {[1 .. n -> BodyBytes] : n \in BodyLengths}
WirePacket(type, body) == <<type, HeaderSize + Len(body), 0>> \o body
Min(a, b) == IF a < b THEN a ELSE b

\* PacketReader(reader): nothing read yet
InitReader ==
    rd = [stream |-> <<>>, eof |-> FALSE, sent |-> <<>>, delivered |-> <<>>,
          pc |-> "header", header |-> <<>>, remaining_length |-> 0, packets |-> 0]

\* every variable but rd
notReader == <<connVars, haVars, hostVars, vsVars, fzVars, hdmVars, ppVars, lifeVars,
               timeVars, cliVars, brgVars, mcVars, mctpVars, ctVars>>

\* the peer writes one packet to the socket
PeerWrites(type, body) ==
    /\ ~rd.eof
    /\ rd.packets < MaxReaderPackets
    /\ rd' = [rd EXCEPT !.packets = @ + 1,
                        !.stream = @ \o WirePacket(type, body),
                        !.sent = Append(@, WirePacket(type, body))]
    /\ UNCHANGED <<notReader>>

\* the peer closes the connection
PeerCloses ==
    /\ ~rd.eof
    /\ rd' = [rd EXCEPT !.eof = TRUE]
    /\ UNCHANGED <<notReader>>

\* base_packet.reset(header_load): the header's bytes, the missing ones zero
ResetHeader(header_load) ==
    [i \in 1 .. HeaderSize |-> IF i <= Len(header_load) THEN header_load[i] ELSE 0]

\* _get_payload up to its second read: one read(BasePacket.get_size())
\* returns n bytes, the header is reset from them and remaining_length is
\* computed.  What reset does with fewer bytes than a header is the packet
\* class's matter: it raises or leaves the missing bytes zero (reset_raises
\* tells which).
ReadsHeader(n, reset_raises) ==
    /\ rd.pc = "header"
    /\ rd.stream # <<>>
    /\ n \in 1 .. Min(HeaderSize, Len(rd.stream))
    /\ reset_raises => n < HeaderSize
    /\ LET base_packet == ResetHeader(SubSeq(rd.stream, 1, n))
           remaining_length == base_packet[2] + ByteBase * base_packet[3] - HeaderSize
       IN  rd' = [rd EXCEPT !.stream = SubSeq(@, n + 1, Len(@)),
                            !.header = base_packet,
                            !.remaining_length = remaining_length,
                            !.pc = IF reset_raises \/ remaining_length < 0
                                   THEN "raised" ELSE "payload"]
    /\ UNCHANGED <<notReader>>

\* The rest of _get_payload: one read(remaining_length) returns n bytes and
\* the packet is bytes(base_packet) followed by them.  read(0) returns no
\* byte, which _read_payload takes for a disconnection.
ReadsPayload(n) ==
    /\ rd.pc = "payload"
    /\ IF rd.remaining_length = 0
       THEN /\ n = 0
            /\ rd' = [rd EXCEPT !.pc = "raised"]
       ELSE /\ rd.stream # <<>>
            /\ n \in 1 .. Min(rd.remaining_length, Len(rd.stream))
            /\ rd' = [rd EXCEPT !.stream = SubSeq(@, n + 1, Len(@)),
                                !.delivered = Append(@, rd.header \o SubSeq(rd.stream, 1, n)),
                                !.pc = "header"]
    /\ UNCHANGED <<notReader>>

\* a read at the end of the stream returns no byte: _read_payload raises
ReadsEof ==
    /\ rd.pc \in {"header", "payload"}
    /\ rd.pc = "payload" => rd.remaining_length > 0
    /\ rd.stream = <<>>
    /\ rd.eof
    /\ rd' = [rd EXCEPT !.pc = "raised"]
    /\ UNCHANGED <<notReader>>

NextReader ==
    \/ \E type \in PayloadTypes, body \in Bodies : PeerWrites(type, body)
    \/ PeerCloses
    \/ \E n \in 1 .. HeaderSize, reset_raises \in BOOLEAN : ReadsHeader(n, reset_raises)
    \/ \E n \in 0 .. MaxBody : ReadsPayload(n)
    \/ ReadsEof


(* Specifications                                                          *)
(***************************************************************************)
(* CCI packets through a packet processor of each component type.          *)
(***************************************************************************)
\* the component types CxlPacketProcessor.__init__ accepts
ProcessorTypes == {"R", "DSP", "P", "T1", "T2", "D2", "USP", "LD"}
CciPayloads == 1 .. MaxCciPayload

\* no processor constructed yet
InitTyped ==
    ct = [component_type |-> "none", fmld |-> <<>>, cci_fifo |-> <<>>,
          stopped |-> FALSE, errors |-> 0, taken |-> 0]

\* every variable but ct
notTyped == <<connVars, haVars, hostVars, vsVars, fzVars, hdmVars, ppVars, lifeVars,
              timeVars, cliVars, brgVars, mcVars, rdVars, mctpVars>>

\* CxlPacketProcessor(reader, writer, cxl_connection, component_type): for
\* an LD the processor makes its own FMLD with an upstream CCI FIFO
NewProcessor(component_type) ==
    /\ ct.component_type = "none"
    /\ ct' = [ct EXCEPT !.component_type = component_type]
    /\ UNCHANGED <<notTyped>>

\* the branch `elif packet.is_cci()` of _process_incoming_packets: where the
\* packet goes, "raise" for the exception, "none" when no statement runs
CciDestination(component_type) ==
    CASE component_type = "D2" -> "raise"
      [] component_type = "LD" -> "fmld"
      [] component_type = "DSP" -> "cci_fifo"
      [] OTHER -> "none"

\* one iteration of _process_incoming_packets with a CCI packet read: an
\* exception is logged, the outgoing processors are notified and the loop
\* ends
ProcessCciPacket(payload) ==
    /\ ct.component_type # "none"
    /\ ~ct.stopped
    /\ ct.taken < MaxCciPackets
    /\ LET to == CciDestination(ct.component_type)
       IN  ct' = [ct EXCEPT !.taken = @ + 1,
                            !.fmld = IF to = "fmld" THEN Append(@, payload) ELSE @,
                            !.cci_fifo = IF to = "cci_fifo" THEN Append(@, payload) ELSE @,
                            !.errors = IF to = "raise" THEN @ + 1 ELSE @,
                            !.stopped = (to = "raise")]
    /\ UNCHANGED <<notTyped>>

NextTyped ==
    \/ \E component_type \in ProcessorTypes : NewProcessor(component_type)
    \/ \E payload \in CciPayloads : ProcessCciPacket(payload)

(***************************************************************************)
\* the constructed state of the components modelled after the virtual switch
InitAfterLife ==
    InitTime /\ InitClient /\ InitBridge /\ InitMemoryController /\ InitReader /\ InitMctp /\ InitTyped
InitExt == InitFreeze /\ InitHdm /\ InitPP /\ InitLife /\ InitAfterLife

Init == InitConn /\ InitHA /\ InitHost /\ InitVS([v \in Vppbs |-> Unbound]) /\ InitExt

SpecConn == Init /\ [][NextConn]_vars

SpecHA == Init /\ [][NextHA]_vars

SpecHATimed == Init /\ [][NextTimed]_vars

SpecClient == Init /\ [][NextClient]_vars

SpecBridge == Init /\ [][NextBridge]_vars

SpecMemoryController == Init /\ [][NextMemoryController]_vars

SpecHAReplies == Init /\ [][NextReplies]_vars /\ FairReplies

SpecMctp == Init /\ [][NextMctp]_vars

SpecReader == Init /\ [][NextReader]_vars

SpecTyped == Init /\ [][NextTyped]_vars

SpecHost == Init /\ [][NextHost]_vars

SpecSnoop == Init /\ [][NextSnoop]_vars

\* the switch is constructed with any of the initial bounds
InitSwitch ==
    InitConn /\ InitHA /\ InitHost /\ InitExt /\ \E b \in InitialBounds : InitVS(b)

SpecVS == InitSwitch /\ [][NextVS]_vars

SpecRoute == InitSwitch /\ [][NextRoute]_vars

SpecFreeze == InitSwitch /\ [][NextFreeze]_vars

SpecSwitchHdm == Init /\ [][NextSwitchHdm]_vars

SpecDeviceHdm == Init /\ [][NextDeviceHdm]_vars

SpecPP == Init /\ [][NextPP]_vars

\* a step of the event loop: a task that can run runs, the transport ends
\* the suspended drain() calls, gather() returns once its tasks have ended
EventLoopStep ==
    \/ IncomingTaskRuns
    \/ \E q \in MailboxNames, drain_suspends \in BOOLEAN : OutgoingTaskRuns(q, drain_suspends)
    \/ WriterResumes
    \/ PpRunEnds

\* the event loop does not stop while it has a step to take
FairPP == WF_vars(EventLoopStep)

\* the processor with the packet budget of the liveness check
InitPPLive ==
    /\ InitConn /\ InitHA /\ InitHost /\ InitVS([v \in Vppbs |-> Unbound])
    /\ InitFreeze /\ InitHdm /\ InitPPWith(LivePackets) /\ InitLife /\ InitAfterLife

SpecPPLive == InitPPLive /\ [][NextPP]_vars /\ FairPP

SpecLife == Init /\ [][NextLife]_vars

\* Every task of the event loop that can run does run: the agent's four
\* tasks, run() itself and wait_and_stop.  The device, the cache and the
\* memory controller answer what they are sent.
FairLife ==
    /\ WF_vars(MainLoopStep)
    /\ WF_vars(DispatcherStops \/ DispatcherTurn)
    /\ \A q \in BridgeQueues : WF_vars(BridgeTaskTakes(q) \/ BridgeTaskResumes(q))
    /\ WF_vars(HaRun \/ HaRunReady \/ HaRunReturns)
    /\ WF_vars(WaitForReady \/ WaitForReadyReturns \/ HaStop)
    /\ WF_vars(\E clean \in BOOLEAN : DeviceServes(clean))
    /\ WF_vars(\E line \in LineStates, data \in Data : CacheAnswersSnoop(line, data))

\* the agent with the flow budget of the termination check
InitLifeLive ==
    /\ InitConn /\ InitHA /\ InitHost /\ InitVS([v \in Vppbs |-> Unbound])
    /\ InitFreeze /\ InitHdm /\ InitPP /\ InitLifeWith(LiveFlows) /\ InitAfterLife

SpecLifeLive == InitLifeLive /\ [][NextLife]_vars /\ FairLife

(***************************************************************************)
(* C1: a connection is answered with connection_accept exactly when its    *)
(* first packet is a connection_request whose port index is in the port    *)
(* list and whose port is disconnected at that moment; every other         *)
(* connection is answered with connection_reject, and answering a          *)
(* connection never changes a port.                                        *)
(***************************************************************************)
C1_AcceptIffValidRequest ==
    [][\A c \in Conns :
         (conn[c].pc = "wait_request" /\ conn'[c].pc # "wait_request") =>
            LET pkt == conn'[c].first
                ok == /\ pkt.kind = "connection_request"
                      /\ pkt.port \in PortIds
                      /\ ~ports[pkt.port].connected
            IN /\ conn'[c].reply \in {"connection_accept", "connection_reject"}
               /\ (conn'[c].reply = "connection_accept") <=> ok
               /\ (conn'[c].reply = "connection_reject") => (ports' = ports /\ conn'[c].port_index = NoPort)
               /\ (conn'[c].reply = "connection_accept") => conn'[c].port_index = pkt.port
      ]_vars

\* a request for a connected port has been rejected and one for a free port accepted
C1_Witness ==
    \E c, d \in Conns :
        /\ conn[c].reply = "connection_reject"
        /\ conn[c].first.kind = "connection_request"
        /\ conn[c].first.port \in PortIds
        /\ conn[d].reply = "connection_accept"
        /\ conn[d].pc = "running"
        /\ conn[d].first.port = conn[c].first.port

(***************************************************************************)
(* Home agent: what the claims read                                        *)
(***************************************************************************)
\* the packets a step appends to the host-to-target queue
SentM2S == IF h2t' = h2t THEN <<>>
           ELSE IF Len(h2t') >= Len(h2t) /\ SubSeq(h2t', 1, Len(h2t)) = h2t
           THEN SubSeq(h2t', Len(h2t) + 1, Len(h2t'))
           ELSE IF Len(h2t') >= Len(h2t) - 1 /\ h2t # <<>> /\ SubSeq(h2t', 1, Len(h2t) - 1) = Tail(h2t)
           THEN SubSeq(h2t', Len(h2t), Len(h2t'))
           ELSE <<>>

\* the step in which the cache's answer to the snoop of the current BISnp
\* flow is taken by the agent
SnoopAnswerTaken == ha.pc = "bisnp_rsp" /\ ha'.pc # "bisnp_rsp"

IsWriteback(p, addr, data, fid) ==
    /\ p.cls = "M2SRwD" /\ p.opcode = "MEM_WR"
    /\ p.meta_field = "META0_STATE" /\ p.meta_value = "INVALID"
    /\ p.addr = addr /\ p.data = data /\ p.fid = fid

(***************************************************************************)
(* C2: when the snoop of a BISnp finds the line Modified, the agent sends  *)
(* the writeback MemWr (Meta0State = Invalid, the snooped data) and no     *)
(* BIRsp in that step, is then in WAIT, stays in WAIT while the BIRsp is   *)
(* scheduled, and sends the BIRsp only in a step that takes the NDR of     *)
(* that writeback.                                                         *)
(***************************************************************************)
C2_WritebackBeforeBIRsp ==
    [][/\ (SnoopAnswerTaken /\ Head(h2c_rsp).line = "M") =>
            /\ SentM2S # <<>>
            /\ IsWriteback(SentM2S[1], ha.packet.addr, Head(h2c_rsp).data, ha.packet.fid)
            /\ \A i \in 1..Len(SentM2S) : SentM2S[i].cls # "M2SBIRsp"
            /\ ha'.state = "WAIT"
            /\ ha'.birsp_sched
       /\ (ha.birsp_sched /\ ha.snoop_line = "M") =>
            /\ ha.state = "WAIT"
            /\ ha'.birsp_sched => ha'.state = "WAIT"
            /\ \A i \in 1..Len(SentM2S) :
                   SentM2S[i].cls = "M2SBIRsp" =>
                      /\ s2m_ndr # <<>>
                      /\ s2m_ndr' = Tail(s2m_ndr)
                      /\ Head(s2m_ndr).fid = ha.packet.fid
                      /\ SentM2S[i].fid = ha.packet.fid
      ]_vars

(***************************************************************************)
(* C3: when the snoop of a BISnp_Inv finds the line present and clean      *)
(* (Shared or Exclusive) in the host cache, the agent answers with one     *)
(* BIRsp_I carrying the BISnp's bi_id and bi_tag and sends no writeback    *)
(* MemWr for that BISnp.                                                   *)
(***************************************************************************)
CleanLines == {"S", "E"}

C3_CleanInvNoWriteback ==
    [][(/\ SnoopAnswerTaken
        /\ ha.packet.opcode = "BISNP_INV"
        /\ Head(h2c_rsp).line \in CleanLines) =>
           /\ SentM2S # <<>>
           /\ SentM2S[1] = BIRspPacket("BIRSP_I", ha.packet.bi_id, ha.packet.bi_tag,
                                       ha.packet.fid)
           /\ \A i \in 1..Len(SentM2S) : SentM2S[i].cls # "M2SRwD"
      ]_vars

CfgRouted == io.pending # <<>> /\ io'.pending = <<>>

\* the bus lies in no secondary/subordinate range through which a DSP is
\* reached
OutsideEveryDspRange(s, bus) ==
    \A v \in Vppbs : s.bound[v] # Unbound => ~InVppbRange(s, v, bus)

\* the BDF is the USP's own or a vPPB's own
IsBridgeBdf(s, bdf) ==
    \/ bdf = <<s.regs.usp_bus, 0, 0>>
    \/ bdf[1] = s.regs.secondary /\ bdf[2] \in Vppbs /\ bdf[3] = 0

\* C5, as stated: every CXL.io request whose target BDF lies outside every
\* DSP's secondary/subordinate bus range is answered, and answered with a
\* completion of Unsupported Request status.
C5_OutsideDspRangesIsUR ==
    [][(CfgRouted /\ OutsideEveryDspRange(vs, Head(io.pending)[1])) =>
           /\ io'.answered.bdf = Head(io.pending)
           /\ io'.answered.status = "UR"
      ]_vars

\* C5, amended: every CXL.io configuration request is answered with one
\* completion, and with Unsupported Request status when its target BDF
\* lies outside every DSP's secondary/subordinate bus range and is neither
\* the USP's nor a vPPB's own BDF.
C5_UnmatchedBdfIsUR ==
    [][CfgRouted =>
           /\ io'.answered.bdf = Head(io.pending)
           /\ io'.answered.status \in {"SC", "UR"}
           /\ (/\ OutsideEveryDspRange(vs, Head(io.pending)[1])
               /\ ~IsBridgeBdf(vs, Head(io.pending))) =>
                    io'.answered.status = "UR"
      ]_vars

\* bus 6 is behind no bridge: the read is answered with Unsupported Request
\* on a switch whose bindings were changed at run time
C5_Witness ==
    /\ io.answered.bdf = <<6, 0, 0>>
    /\ io.answered.status = "UR"
    /\ vs.bound # vs.initial
    /\ \E v \in Vppbs : vs.bound[v] # Unbound

\* the conditions under which bind_vppb is to fail
BindMustFail(bound, port_index, vppb_index) ==
    \/ port_index \notin PhysicalPorts
    \/ PortType(port_index) # "DSP"
    \/ bound[vppb_index] \notin {Unbound, port_index}

\* the call op of the fabric manager's client returns in this step
FmReturns(op) == fm.pc # "idle" /\ fm'.pc = "idle" /\ fm.op = op
\* the switch executes a call op in this step
VcsExecutes(op) == vs'.calls # vs.calls /\ vs'.last.op = op
\* the pair a failed call returns: (return_code, None)
IsError(result) == result[2] = "None"

\* C6: bind_vppb returns an error whenever port_index is out of range, the
\* physical port at port_index is not a DSP, or the vPPB is already bound
\* to some other DSP; on the switch itself, and through the fabric
\* manager's client when the call waits for the operation's completion.
C6_BindReturnsError ==
    [][/\ (/\ VcsExecutes("bind")
           /\ BindMustFail(vs.bound, vs'.last.port, vs'.last.vppb)) =>
               vs'.last.err # "none"
       /\ (/\ FmReturns("bind")
           /\ fm.wait
           /\ BindMustFail(fm.pre, fm.port, fm.vppb)) =>
               IsError(fm'.result)
      ]_vars

\* C7: unbind_vppb returns an error whenever the vPPB is not bound to any
\* physical port; on the switch itself, and through the fabric manager's
\* client when the call waits for the operation's completion.
C7_UnbindReturnsError ==
    [][/\ (/\ VcsExecutes("unbind")
           /\ (vs'.last.vppb \notin Vppbs \/ vs.bound[vs'.last.vppb] = Unbound)) =>
               vs'.last.err # "none"
       /\ (/\ FmReturns("unbind")
           /\ fm.wait
           /\ (fm.vppb \notin Vppbs \/ fm.pre[fm.vppb] = Unbound)) =>
               IsError(fm'.result)
      ]_vars

\* C8: after any sequence of bind_vppb and unbind_vppb calls no DSP has
\* more than one vPPB bound to it.
C8_OneVppbPerDsp ==
    \A p \in PhysicalPorts : Cardinality({v \in Vppbs : vs.bound[v] = p}) <= 1

\* C9: a bind_vppb or unbind_vppb call that returns an error changes no
\* vPPB binding (for a call through the client: the bindings are those
\* the switch had when the command reached it), and a step that changes a
\* binding is a bind_vppb or unbind_vppb call that succeeds, changing the
\* binding of the call's vPPB only.
C9_OnlySuccessfulCallsChangeBindings ==
    [][/\ (vs'.calls # vs.calls /\ vs'.last.err # "none") => vs'.bound = vs.bound
       /\ (fm.pc # "idle" /\ fm'.pc = "idle" /\ IsError(fm'.result)) =>
              vs'.bound = fm.pre
       /\ (vs'.bound # vs.bound) =>
              /\ vs'.calls = vs.calls + 1
              /\ vs'.last.op \in {"bind", "unbind"}
              /\ vs'.last.err = "none"
              /\ \A v \in Vppbs \ {vs'.last.vppb} : vs'.bound[v] = vs.bound[v]
      ]_vars

\* the client has returned an error for a command the switch rejected, on
\* a switch whose bindings earlier calls have changed
C9_Witness ==
    /\ fm.pc = "idle"
    /\ IsError(fm.result)
    /\ vs.last.err # "none"
    /\ vs.calls > 1
    /\ vs.bound # vs.initial

(***************************************************************************)
(* Claims about frozen vPPBs.                                              *)
(***************************************************************************)
\* the switch routes the pending packet in this step
PacketRouted == tp.pending # <<>> /\ tp'.pending = <<>>

\* C11: while a vPPB is frozen, a CXL.io MRd or MWr addressed through it
\* is never delivered to the bound device, and a CXL.mem packet addressed
\* through it is delivered to the DSP the vPPB is bound to.
C11_FrozenDropsIoPassesMem ==
    [][(/\ PacketRouted
        /\ fz[Head(tp.pending).vppb]
        /\ vs.bound[Head(tp.pending).vppb] # Unbound) =>
           /\ tp'.routed.pkt = Head(tp.pending)
           /\ Head(tp.pending).kind \in {"MRd", "MWr"} =>
                 tp'.routed.outcome \in {"dropped", "UR"}
           /\ Head(tp.pending).kind = "MEM" =>
                 /\ tp'.routed.outcome = "delivered"
                 /\ tp'.routed.port = vs.bound[Head(tp.pending).vppb]
      ]_vars

\* a CXL.mem packet has passed a vPPB that is frozen and was bound at run time
C11_Witness ==
    /\ tp.routed.pkt.kind = "MEM"
    /\ tp.routed.outcome = "delivered"
    /\ fz[tp.routed.pkt.vppb]
    /\ vs.initial[tp.routed.pkt.vppb] = Unbound
    /\ vs.bound[tp.routed.pkt.vppb] = tp.routed.port

(***************************************************************************)
(* Claims about the HDM decoders.                                          *)
(***************************************************************************)
\* the switch's manager looks up the target of an HPA in this step
TargetLookedUp(hpa) ==
    /\ sw_hdm'.last # sw_hdm.last
    /\ sw_hdm'.last.op = "get_target"
    /\ sw_hdm'.last.arg = hpa
    /\ sw_hdm'.decoders = sw_hdm.decoders

\* C12: for every committed switch decoder, every HPA in its range, every
\* granularity from 256 bytes to 16 KiB and each of 1, 2, 3, 4, 6, 8, 12
\* and 16 ways, get_target(hpa) returns
\* target_ports[(hpa / ig_bytes) mod ways].
C12_TargetIsChunkModWays ==
    [][\A hpa \in ProbeHpas(sw_hdm.decoders) :
          \A i \in 1..Len(sw_hdm.decoders) :
             (/\ TargetLookedUp(hpa)
              /\ get_decoder_from_hpa(sw_hdm.decoders, hpa) = i) =>
                 LET d == sw_hdm.decoders[i]
                     ig_bytes == 2 ^ (d.ig + 8)
                 IN  sw_hdm'.last.out =
                        Returned(d.target_ports[((hpa \div ig_bytes) % IwToWays(d.iw)) + 1])
      ]_vars

\* the device's manager translates an HPA to a DPA and back in this step
RoundTripDone(hpa) ==
    /\ dev_hdm'.last # dev_hdm.last
    /\ dev_hdm'.last.op = "get_hpa"
    /\ dev_hdm'.last.arg = hpa
    /\ dev_hdm'.decoders = dev_hdm.decoders

\* C13: for every device decoder committed with 1 way and every HPA in its
\* range, get_hpa(get_dpa(hpa)) = hpa, whether one decoder or more than one
\* has been committed.
C13_RoundTripIsIdentity ==
    [][\A hpa \in ProbeHpas(dev_hdm.decoders) :
          \A i \in 1..Len(dev_hdm.decoders) :
             (/\ RoundTripDone(hpa)
              /\ get_decoder_from_hpa(dev_hdm.decoders, hpa) = i
              /\ dev_hdm.decoders[i].iw = 0) =>
                 dev_hdm'.last.out = Returned(hpa)
      ]_vars

\* a commit is called with an index that names no decoder
OutOfRangeCommit(m, n) ==
    /\ n.last # m.last
    /\ n.last.op = "commit"
    /\ n.last.arg \notin 0..(Len(m.decoders) - 1)

\* C14: a decoder commit with an out-of-range index returns an error, it
\* neither succeeds nor raises, and leaves base, size, granularity, ways
\* and targets of every decoder as they were; on the switch's manager and
\* on the device's.
C14_OutOfRangeCommitIsRejected ==
    [][/\ OutOfRangeCommit(sw_hdm, sw_hdm') =>
             /\ sw_hdm'.last.out = ReturnedBool(FALSE)
             /\ sw_hdm'.decoders = sw_hdm.decoders
       /\ OutOfRangeCommit(dev_hdm, dev_hdm') =>
             /\ dev_hdm'.last.out = ReturnedBool(FALSE)
             /\ dev_hdm'.decoders = dev_hdm.decoders
      ]_vars

(***************************************************************************)
(* Claims about the packet processor.                                      *)
(***************************************************************************)
\* the incoming task handles the packet at the head of the stream in this
\* step
IncomingHandled == wire.rx # <<>> /\ wire'.rx = Tail(wire.rx)
\* the task of outgoing mailbox q takes the packet at the head of its
\* mailbox in this step
OutgoingTaken(q) ==
    mbox.outgoing[q] # <<>> /\ mbox'.outgoing[q] = Tail(mbox.outgoing[q])
\* the mailbox of a fifo type of the table
FifoOf(fifo_type) == IF fifo_type = "CFG" THEN "cfg_space" ELSE "mmio"
\* the table with the entry of tid removed
WithoutEntry(tlp_table, tid) == [tlp_table EXCEPT ![tid] = "none"]

\* C15: every CFG or MMIO completion is delivered to the mailbox recorded
\* for the request with the same transaction id, the config-space mailbox
\* or the MMIO mailbox, and to no other, and the table entry of that tid is
\* removed when the completion passes; an outgoing completion passes to the
\* connection and its entry is removed as well.
C15_CompletionFollowsTable ==
    [][/\ (/\ IncomingHandled
           /\ Head(wire.rx).kind = "CPL"
           /\ pp.tlp_table[Head(wire.rx).tid] # "none") =>
              LET packet == Head(wire.rx)
                  fifo == FifoOf(pp.tlp_table[packet.tid])
              IN  /\ mbox'.incoming =
                        [mbox.incoming EXCEPT ![fifo] = Append(@, packet)]
                  /\ pp'.tlp_table = WithoutEntry(pp.tlp_table, packet.tid)
       /\ \A q \in {"cfg_space", "mmio"} :
             (/\ OutgoingTaken(q)
              /\ Head(mbox.outgoing[q]).kind = "CPL"
              /\ pp.tlp_table[Head(mbox.outgoing[q]).tid] # "none") =>
                 /\ wire'.tx = Append(wire.tx, Head(mbox.outgoing[q]))
                 /\ pp'.tlp_table = WithoutEntry(pp.tlp_table, Head(mbox.outgoing[q]).tid)
      ]_vars

\* a completion of a memory read has been delivered to the MMIO mailbox
\* while the table held an entry of a config request, and its own entry is
\* gone
C15_Witness ==
    /\ \E i \in 1..Len(mbox.incoming["mmio"]) :
          /\ mbox.incoming["mmio"][i].kind = "CPL"
          /\ pp.tlp_table[mbox.incoming["mmio"][i].tid] = "none"
          /\ \E j \in 1..Len(wire.tx) :
                /\ wire.tx[j].kind = "MRD"
                /\ wire.tx[j].tid = mbox.incoming["mmio"][i].tid
    /\ \E t \in Tids : pp.tlp_table[t] = "CFG"
    /\ mbox.incoming["cfg_space"] = <<>>

\* the packet is a request whose tid is recorded already, or a completion
\* whose tid is not recorded
TidError(tlp_table, packet) ==
    \/ packet.kind \in {"CFG", "MRD"} /\ tlp_table[packet.tid] # "none"
    \/ packet.kind = "CPL" /\ tlp_table[packet.tid] = "none"
\* the disconnection notification is put on outgoing mailbox q in this step
NotificationPut(q) ==
    /\ Len(mbox'.outgoing[q]) > 0
    /\ mbox'.outgoing[q][Len(mbox'.outgoing[q])] = DisconnectionNotification
    /\ Len(mbox'.outgoing[q]) > Len(mbox.outgoing[q]) - 1

\* C16: a request whose tid is recorded already, or a completion whose tid
\* is not recorded, is an error in either direction: the packet is not
\* passed on, the reading of the connection ends, and the disconnection
\* notification is put on every outgoing mailbox of the processor.
C16_TidErrorTearsDown ==
    [][/\ (IncomingHandled /\ TidError(pp.tlp_table, Head(wire.rx))) =>
              /\ mbox'.incoming = mbox.incoming
              /\ pp'.incoming = "stopped"
              /\ \A q \in MailboxNames : NotificationPut(q)
       /\ \A o \in {"cfg_space", "mmio"} :
             (OutgoingTaken(o) /\ TidError(pp.tlp_table, Head(mbox.outgoing[o]))) =>
                 /\ wire'.tx = wire.tx
                 /\ pp'.incoming = "stopped"
                 /\ \A q \in MailboxNames : NotificationPut(q)
      ]_vars

\* the reader meets the end of the stream in this step
DisconnectRead == IncomingHandled /\ Head(wire.rx).kind \in EndOfStream
\* every outgoing task has ended
OutgoingTasksEnded == \A q \in MailboxNames : pp.outgoing[q] \in {"stopped", "raised"}

InEntryOrder(seq) ==
    \A i, j \in 1..Len(seq) :
        (i < j /\ Sublayer(seq[i].kind) = Sublayer(seq[j].kind)) => seq[i].n < seq[j].n

\* C18: within one connection, packets of the same sublayer travelling in
\* the same direction leave the packet processor in the order in which
\* they entered it: the packets written to the connection, and the packets
\* put on each incoming mailbox.
C18_SublayerOrderKept ==
    /\ InEntryOrder(wire.tx)
    /\ \A q \in MailboxNames : InEntryOrder(mbox.incoming[q])

(***************************************************************************)
(* Claims about the component lifecycle.                                   *)
(***************************************************************************)
\* a step in which wait_for_ready returns to its caller
ReadyReturned == life.waiter = "waiting" /\ life'.waiter = "ready"

C20_StopEndsRun ==
    life.stop_called ~> (TasksDone /\ life.run = "returned")

(***************************************************************************)
(* C26: while the agent's flow is in WAIT, a step dequeues no host request *)
(* and no BISnp, starts no flow, and every M2S packet it puts on           *)
(* host_to_target belongs to the flow that is in WAIT.                     *)
(***************************************************************************)
C26_WaitStartsNoOtherFlow ==
    [][ha.state = "WAIT" =>
           /\ Len(c2h_req') >= Len(c2h_req)
           /\ Len(s2m_bisnp') >= Len(s2m_bisnp)
           /\ ha'.flows = ha.flows
           /\ ha'.packet = ha.packet
           /\ \A i \in 1..Len(SentM2S) : SentM2S[i].fid = ha.packet.fid
      ]_vars

\* the agent is in WAIT for a flow while a host request and a BISnp are
\* queued
C26_Witness ==
    /\ ha.state = "WAIT"
    /\ ha.pc = "loop"
    /\ ha.flows = 1
    /\ c2h_req # <<>>
    /\ s2m_bisnp # <<>>

\* a step of the main loop in INIT that takes a packet from a queue
FlowPicked == ha.state = "INIT" /\ ha'.flows = ha.flows + 1

(***************************************************************************)
(* C27: when the agent, in INIT, takes a packet while both the host        *)
(* request queue and the BISnp queue are non-empty, it takes it from the   *)
(* queue it did not serve last (from the host queue when it has served     *)
(* none yet): no queue is served twice in a row while the other is         *)
(* non-empty, so a waiting packet is overtaken by at most one flow of the  *)
(* other queue.                                                            *)
(***************************************************************************)
C27_QueuesAlternate ==
    [][(FlowPicked /\ c2h_req # <<>> /\ s2m_bisnp # <<>>) =>
           /\ ha'.fn # ha.fn
           /\ ha.fn = "none" => ha'.fn = "host"
           /\ ha'.fn = "host" => c2h_req' = Tail(c2h_req) /\ s2m_bisnp' = s2m_bisnp
           /\ ha'.fn = "bisnp" => s2m_bisnp' = Tail(s2m_bisnp) /\ c2h_req' = c2h_req
      ]_vars

\* the agent has served the host queue and then, with a second host
\* request queued, the BISnp queue
C27_Witness ==
    /\ ha.state = "START"
    /\ ha.fn = "bisnp"
    /\ ha.flows = 2
    /\ env.bisnps = 1
    /\ env.host_reqs = 2
    /\ Len(c2h_req) = 1

\* the CacheResponses a step puts on the response queue
ResponsesPut == SubSeq(c2h_rsp', Len(c2h_rsp) + 1, Len(c2h_rsp'))
\* the DRS packets a step of the main loop takes from s2m_drs
DrsTaken == IF Len(s2m_drs') < Len(s2m_drs)
            THEN SubSeq(s2m_drs, 1, Len(s2m_drs) - Len(s2m_drs'))
            ELSE <<>>
\* the number of CacheRequests the agent has taken from its request queue
HostRequestsTaken == env.host_reqs - Len(c2h_req)

(***************************************************************************)
(* C28: the agent puts exactly one CacheResponse for every CacheRequest it *)
(* has taken (none is missing once the flow is over, none is put twice),   *)
(* the responses are those of the requests in request order, and a         *)
(* response that carries the data of a DRS belongs to the flow for which   *)
(* the device sent that DRS.                                               *)
(***************************************************************************)
C28_OneResponsePerRequest ==
    /\ [](/\ Len(c2h_rsp) <= HostRequestsTaken
          /\ (ha.state = "INIT" /\ ha.pc = "loop") => Len(c2h_rsp) = HostRequestsTaken
          /\ \A i, j \in 1..Len(c2h_rsp) : i < j => c2h_rsp[i].fid < c2h_rsp[j].fid)
    /\ [][/\ \A i \in 1..Len(ResponsesPut) :
                 ha.fn = "host" /\ ResponsesPut[i].fid = ha.packet.fid
          /\ \A i \in 1..Len(DrsTaken) : DrsTaken[i].fid = ha.packet.fid
         ]_vars

(***************************************************************************)
(* DCOH: what the claims read, and the requests of test_cxl_mem_dcoh.py    *)
(***************************************************************************)
\* the step in which the device takes the M2S packet at the head of
\* host_to_target
DeviceServed == h2t # <<>> /\ h2t' = Tail(h2t) /\ Len(t2h') >= Len(t2h)
\* the S2M packets that step puts on target_to_host
RepliesPut == SubSeq(t2h', Len(t2h) + 1, Len(t2h'))
ReplyShape(replies) == [i \in 1..Len(replies) |-> <<replies[i].cls, replies[i].opcode>>]

\* test_cxl_mem_dcoh_read and test_cxl_mem_dcoh_write: the M2S packets the
\* test puts on host_to_target
DcohTestRequests(test) ==
    IF test = "read"
    THEN <<M2SPacket("M2SReq", "MEM_RD", "NO_OP", "ANY", "NO_OP", 0, NoData, 1),
           M2SPacket("M2SReq", "MEM_RD", "META0_STATE", "SHARED", "SNP_DATA", 0, NoData, 2),
           M2SPacket("M2SReq", "MEM_INV", "META0_STATE", "ANY", "SNP_INV", 0, NoData, 3),
           M2SPacket("M2SReq", "MEM_RD", "META0_STATE", "ANY", "SNP_CUR", 0, NoData, 4)>>
    ELSE <<M2SPacket("M2SRwD", "MEM_WR", "NO_OP", "ANY", "NO_OP", 0, 1, 1),
           M2SPacket("M2SRwD", "MEM_WR", "META0_STATE", "INVALID", "NO_OP", 0, 1, 2)>>

RECURSIVE DcohTestReplies(_, _)
\* everything the device puts on target_to_host for these requests
DcohTestReplies(requests, clean) ==
    IF requests = <<>> THEN <<>>
    ELSE DeviceReplies(Head(requests), [a \in Lines |-> 0], clean)
             \o DcohTestReplies(Tail(requests), clean)

\* The classes of the packets the test takes from target_to_host: one get()
\* after each put, each of which returns the oldest packet not yet taken.
DcohTestReads(test, clean) ==
    LET replies == DcohTestReplies(DcohTestRequests(test), clean)
    IN  [i \in 1..Len(DcohTestRequests(test)) |-> replies[i].cls]

(***************************************************************************)
(* C23: for each M2S request it serves, the DCOH puts exactly the S2M      *)
(* replies of its table, in this order: MemRd NoOp -> one DRS and no NDR;  *)
(* MemRd SnpData/Shared -> an NDR Cmp_S or Cmp_E, then a DRS; MemInv       *)
(* SnpInv -> one NDR Cmp_E; MemRd SnpCur -> an NDR Cmp, then a DRS; MemWr  *)
(* with either meta setting -> one NDR Cmp.  A DRS carries the line read.  *)
(* The packets test_cxl_mem_dcoh.py takes are of the classes it expects.   *)
(***************************************************************************)
C23_DcohRepliesFollowTable ==
    /\ [][DeviceServed =>
            LET p == Head(h2t)
                shape == ReplyShape(RepliesPut)
                ndr(opcode) == <<"S2MNDR", opcode>>
                drs == <<"S2MDRS", "MEM_DATA">>
            IN  /\ (p.cls = "M2SReq" /\ p.opcode = "MEM_RD" /\ p.snp_type = "NO_OP") =>
                       shape = <<drs>>
                /\ (p.cls = "M2SReq" /\ p.opcode = "MEM_RD" /\ p.snp_type = "SNP_DATA") =>
                       shape \in {<<ndr("CMP_S"), drs>>, <<ndr("CMP_E"), drs>>}
                /\ (p.cls = "M2SReq" /\ p.opcode = "MEM_INV" /\ p.snp_type = "SNP_INV") =>
                       shape = <<ndr("CMP_E")>>
                /\ (p.cls = "M2SReq" /\ p.opcode = "MEM_RD" /\ p.snp_type = "SNP_CUR") =>
                       shape = <<ndr("CMP"), drs>>
                /\ (p.cls = "M2SRwD" /\ p.opcode = "MEM_WR") =>
                       shape = <<ndr("CMP")>>
                /\ \A i \in 1..Len(RepliesPut) :
                       /\ RepliesPut[i].fid = p.fid
                       /\ RepliesPut[i].cls = "S2MDRS" => RepliesPut[i].data = env.dev_mem[p.addr]
         ]_vars
    /\ [](\A clean \in BOOLEAN :
            /\ DcohTestReads("read", clean) = <<"S2MDRS", "S2MNDR", "S2MDRS", "S2MNDR">>
            /\ DcohTestReads("write", clean) = <<"S2MNDR", "S2MNDR">>)

\* the device has answered a MemRd SnpCur: an NDR Cmp and, behind it, the
\* DRS with the line that an earlier MemWr wrote
C23_Witness ==
    \E i \in 1..(Len(t2h) - 1) :
        /\ t2h[i].cls = "S2MNDR" /\ t2h[i].opcode = "CMP" /\ t2h[i].meta_value = "ANY"
        /\ t2h[i + 1].cls = "S2MDRS" /\ t2h[i + 1].fid = t2h[i].fid
        /\ t2h[i + 1].data = 1

\* the step of the main loop that takes the NDR at the head of s2m_ndr
NdrTaken == s2m_ndr # <<>> /\ s2m_ndr' = Tail(s2m_ndr)
\* the step in which the NDR handler's wait for a DRS ends
DrsWaitEnds == ha.pc = "drs_spin" /\ ha'.pc # "drs_spin"
NdrStatus(opcode) == IF opcode = "CMP_S" THEN "RSP_S" ELSE "RSP_I"

(***************************************************************************)
(* C29: when the agent takes an NDR Cmp_S or Cmp_E, the CacheResponse of   *)
(* the flow has status RSP_S or RSP_I respectively; when the NDR it takes  *)
(* (Cmp, Cmp_S or Cmp_E) has meta_value Any, the agent puts no response    *)
(* before it has the DRS that follows that NDR, and the response it then   *)
(* puts carries the data of that DRS.                                      *)
(***************************************************************************)
C29_NdrStatusAndData ==
    [][/\ NdrTaken =>
            LET ndr == Head(s2m_ndr)
            IN  /\ (ndr.opcode \in {"CMP_S", "CMP_E"} /\ ndr.meta_value # "ANY") =>
                       /\ ResponsesPut # <<>>
                       /\ ResponsesPut[1].status = NdrStatus(ndr.opcode)
                       /\ ResponsesPut[1].data = NoData
                /\ ndr.meta_value = "ANY" =>
                       \/ /\ ha'.pc = "drs_spin"
                          /\ ha'.state = "WAIT"
                          /\ ResponsesPut = <<>>
                          /\ DrsTaken = <<>>
                       \/ /\ ResponsesPut # <<>>
                          /\ DrsTaken # <<>>
                          /\ DrsTaken[1].fid = ndr.fid
                          /\ ResponsesPut[1].data = DrsTaken[1].data
                          /\ ndr.opcode \in {"CMP_S", "CMP_E"} =>
                                 ResponsesPut[1].status = NdrStatus(ndr.opcode)
       /\ DrsWaitEnds =>
            /\ ResponsesPut # <<>>
            /\ DrsTaken # <<>>
            /\ DrsTaken[1].fid = ha.packet.fid
            /\ ResponsesPut[1].data = DrsTaken[1].data
            /\ ResponsesPut[1].status = ha.status
      ]_vars

\* the step in which the host handler translates the current CacheRequest
HostRequestStarted == ha.state = "START" /\ ha.fn = "host" /\ ha.pc = "loop" /\ ha'.state # "START"

(***************************************************************************)
(* C30: for a write-type CacheRequest the agent puts the response OK in    *)
(* the step that sends the MemWr, whatever S2M packets have arrived; for a *)
(* read-type CacheRequest it puts a response only in a step that takes an  *)
(* S2M reply sent for that request, or that ends the wait for the DRS      *)
(* after that request's NDR.                                               *)
(***************************************************************************)
C30_WritesAnswerAtOnceReadsWait ==
    [][/\ (HostRequestStarted /\ ha.packet.type \in WriteTypes) =>
            /\ ResponsesPut # <<>>
            /\ ResponsesPut[1].status = "OK"
            /\ ResponsesPut[1].fid = ha.packet.fid
       /\ (ResponsesPut # <<>> /\ ha.fn = "host" /\ ha.packet.type \in ReadTypes) =>
            \/ \E i \in 1..Len(DrsTaken) : DrsTaken[i].fid = ha.packet.fid
            \/ NdrTaken /\ Head(s2m_ndr).fid = ha.packet.fid
            \/ ha.pc = "drs_spin"
      ]_vars

\* C21: a period of three seconds in which no S2M packet arrives while a
\* flow is outstanding aborts the flow: after it the home agent is in state
\* INIT and no read_cxl_mem or write_cxl_mem call is still waiting.
C21_TimeoutAbortsFlow ==
    [][tm'.timeouts # tm.timeouts => ha'.state = "INIT" /\ tm'.api.pc # "wait"]_vars


\* C22: a caller of the API client that has its response has the response
\* that was produced for its own request: same tag and same request.
C22_ResponseMatchesRequest ==
    \A c \in Callers :
        cli.callers[c].pc = "done" =>
            /\ cli.callers[c].got.tag = cli.callers[c].tag
            /\ cli.callers[c].got.id = cli.callers[c].id

\* the bridge takes a device's request from the downstream fifo
D2HReqTaken ==
    /\ brg.target_to_host # <<>>
    /\ Head(brg.target_to_host).cls = "D2HReq"
    /\ brg'.target_to_host = Tail(brg.target_to_host)

\* C24: a D2H request that the bridge takes while its count of coherent
\* devices is zero is rejected: no request goes to the host cache or to
\* memory, no H2D packet is sent, and the bridge starts no flow for it.
C24_NoDeviceNoSnoop ==
    [][(D2HReqTaken /\ brg.count = 0) =>
           /\ brg'.rejected = brg.rejected + 1
           /\ brg'.pc = "idle"
           /\ brg'.cache_request = brg.cache_request
           /\ brg'.memory_request = brg.memory_request
           /\ brg'.host_to_target = brg.host_to_target]_vars

\* a request was rejected with no device counted, after another was served
C24_Witness ==
    /\ brg.rejected = 1
    /\ brg.count = 0
    /\ brg.d2h_reqs = 2
    /\ brg.target_to_host = <<>>
    /\ brg.memory_request # <<>>

\* the controller takes a request whose address or size is not a multiple
\* of the line size
MisalignedTaken ==
    /\ mc.request # <<>>
    /\ mc'.request = Tail(mc.request)
    /\ ~Aligned(Head(mc.request).addr, Head(mc.request).size)

\* C25: a read or write request whose address or size is not aligned to a
\* line is not served: the file keeps its content and no response with
\* status OK is put for it.
C25_MisalignedFails ==
    [][MisalignedTaken =>
           /\ mc'.file = mc.file
           /\ \/ mc'.response = mc.response
              \/ mc'.response[Len(mc'.response)].status # "OK"]_vars

\* the BIRsp packets a step puts on the host-to-target queue
SentBIRsp == SelectSeq(SentM2S, LAMBDA p : p.cls = "M2SBIRsp")

\* the current packet is a BISnp
BISnpCurrent == "bi_id" \in DOMAIN ha.packet

\* C31: a dequeued BISnp gets exactly one BIRsp, with its own bi_id and
\* bi_tag.  The agent holds the ids only in its current packet: it takes no
\* other packet while a BIRsp is owed, a step sends at most one BIRsp, that
\* BIRsp carries the ids of the current BISnp, and after it none is owed.
C31_OneBIRspPerBISnp ==
    /\ [][ha'.packet # ha.packet => ~ha.birsp_sched]_vars
    /\ [][SentBIRsp # <<>> =>
              /\ Len(SentBIRsp) = 1
              /\ BISnpCurrent
              /\ SentBIRsp[1].bi_id = ha.packet.bi_id
              /\ SentBIRsp[1].bi_tag = ha.packet.bi_tag
              /\ ~ha'.birsp_sched]_vars

\* the device's reply for the current flow has reached the agent's channels
ReplyArrived ==
    /\ ha.state = "WAIT"
    /\ s2m_ndr # <<>> \/ s2m_drs # <<>>

\* C32: a flow whose reply has arrived returns to INIT, whatever the NDR
\* opcode of the reply, and the main loop goes on running.
C32_ReplyEndsFlow == ReplyArrived ~> (ha.state = "INIT" /\ ha.pc # "crashed")

\* the connections that were accepted for port p and have not ended
AcceptedFor(p) ==
    {c \in Conns : conn[c].port_index = p /\ conn[c].pc \in {"confirming", "starting", "running"}}

\* C33: each port has at most one accepted connection and at most one
\* running packet processor, and its connected flag is set exactly while a
\* connection marked connected is alive.
C33_OneConnectionPerPort ==
    \A p \in PortIds :
        /\ Cardinality(AcceptedFor(p)) <= 1
        /\ Cardinality({c \in Conns : conn[c].port_index = p /\ conn[c].pc = "running"}) <= 1
        /\ ports[p].connected <=>
               \E c \in Conns : conn[c].port_index = p /\ conn[c].pc \in {"starting", "running"}

\* the spec's table of the local-request handler:
\* <<opcode, meta_field, meta_value, snp_type>>, "-" where the table names none
M2STable(type) ==
    CASE type \in {"READ", "UNCACHED_READ"}   -> <<"MEM_RD", "NO_OP", "ANY", "NO_OP">>
      [] type \in {"WRITE", "UNCACHED_WRITE"} -> <<"MEM_WR", "NO_OP", "ANY", "NO_OP">>
      [] type = "WRITE_BACK"                  -> <<"MEM_WR", "META0_STATE", "INVALID", "NO_OP">>
      [] type = "SNP_DATA"                    -> <<"MEM_RD", "META0_STATE", "SHARED", "SNP_DATA">>
      [] type = "SNP_INV"                     -> <<"MEM_INV", "META0_STATE", "ANY", "SNP_INV">>
      [] type = "SNP_CUR"                     -> <<"MEM_RD", "META0_STATE", "-", "SNP_CUR">>
      [] OTHER                                -> <<"-", "-", "-", "-">>

FollowsTable(p, type) ==
    LET row == M2STable(type)
    IN  /\ row[1] \in {"-", p.opcode}
        /\ row[2] \in {"-", p.meta_field}
        /\ row[3] \in {"-", p.meta_value}
        /\ row[4] \in {"-", p.snp_type}
        /\ p.cls = IF p.opcode = "MEM_WR" THEN "M2SRwD" ELSE "M2SReq"

\* the request and data packets a step puts on the host-to-target queue
SentRequests == SelectSeq(SentM2S, LAMBDA p : p.cls \in {"M2SReq", "M2SRwD"})

\* the iteration of the main loop that runs the local-request handler on a
\* CacheRequest just taken
RequestTranslated == ha.state = "START" /\ ha.fn = "host" /\ ha'.state # "START"

\* C34: the iteration that handles a CacheRequest sends one M2S packet,
\* with the address of the request and the fields of the table's row for
\* its type, and no other iteration of a host flow sends a request packet.
C34_RequestToM2S ==
    /\ [][RequestTranslated =>
              /\ Len(SentRequests) = 1
              /\ SentRequests[1].addr = ha.packet.addr
              /\ FollowsTable(SentRequests[1], ha.packet.type)]_vars
    /\ [][(SentRequests # <<>> /\ ha.fn = "host") => RequestTranslated]_vars

\* a WRITE_BACK has been translated and its MemWr is on the queue
C34_Witness ==
    /\ ha.state = "WAIT"
    /\ ha.fn = "host"
    /\ ha.packet.type = "WRITE_BACK"
    /\ h2t # <<>>
    /\ h2t[Len(h2t)].opcode = "MEM_WR"
    /\ h2t[Len(h2t)].meta_field = "META0_STATE"
    /\ h2t[Len(h2t)].fid = ha.packet.fid


\* C40: at most one controller connection is served at a time, and a
\* refused attempt leaves the connected flag of the active connection as it
\* was: the flag is set exactly while a connection is served.
C40_OneControllerConnection ==
    /\ Cardinality({c \in MctpConns : mctp.conns[c] = "running"}) <= 1
    /\ mctp.connected <=> \E c \in MctpConns : mctp.conns[c] = "running"

\* C35: however the stream is split into reads, the packets the reader
\* delivers are the packets that were written, in order and byte for byte.
C35_SameUnderAnySplit ==
    /\ Len(rd.delivered) <= Len(rd.sent)
    /\ \A i \in 1 .. Len(rd.delivered) : rd.delivered[i] = rd.sent[i]

\* C36: a CCI packet read by the processor goes to the FMLD's mailbox when
\* the component is an LD and to the CCI mailbox when it is a DSP; for every
\* other component type it goes to no mailbox and an error is reported.
C36_CciByComponentType ==
    [][ct'.taken = ct.taken + 1 =>
        LET p == IF Len(ct'.fmld) > Len(ct.fmld) THEN ct'.fmld[Len(ct'.fmld)]
                 ELSE IF Len(ct'.cci_fifo) > Len(ct.cci_fifo)
                      THEN ct'.cci_fifo[Len(ct'.cci_fifo)] ELSE 0
        IN  CASE ct.component_type = "LD" ->
                   /\ ct'.fmld = Append(ct.fmld, p)
                   /\ ct'.cci_fifo = ct.cci_fifo
                   /\ ct'.errors = ct.errors
              [] ct.component_type = "DSP" ->
                   /\ ct'.cci_fifo = Append(ct.cci_fifo, p)
                   /\ ct'.fmld = ct.fmld
                   /\ ct'.errors = ct.errors
              [] OTHER ->
                   /\ ct'.fmld = ct.fmld
                   /\ ct'.cci_fifo = ct.cci_fifo
                   /\ ct'.errors = ct.errors + 1]_vars

\* the CacheRequests the cache controller puts in a step, to the home agent
\* or to the coherency bridge
CcEmitted ==
    IF Len(c2h_req') > Len(c2h_req) THEN <<c2h_req'[Len(c2h_req')]>>
    ELSE IF Len(cb'.req) > Len(cb.req) THEN <<cb'.req[Len(cb'.req)]>>
    ELSE <<>>

\* C37: a line in state M leaves the cache only as the victim whose
\* WRITE_BACK, with the line's address and data, was put earlier and has been
\* answered; the WRITE_BACK is put while the line is still in the cache, and
\* the fill request of a miss is put only when the set has room again.
C37_WriteBackBeforeReplacement ==
    [][/\ \A i \in 1 .. Len(cache) :
            (cache[i].state = "M" /\ CacheIndex(cache', cache[i].addr) = 0) =>
                /\ i = 1
                /\ cc.pc = "wb"
                /\ cache[i].addr \in cc.written_back
       /\ \A j \in 1 .. Len(CcEmitted) :
            /\ CcEmitted[j].type = "WRITE_BACK" =>
                 /\ cache # <<>>
                 /\ Head(cache).state = "M"
                 /\ CcEmitted[j].addr = Head(cache).addr
                 /\ CcEmitted[j].data = Head(cache).data
                 /\ CacheIndex(cache', Head(cache).addr) # 0
                 /\ cc'.pc = "wb"
            /\ CcEmitted[j].type = "SNP_DATA" =>
                 /\ cc'.pc = "fill"
                 /\ Len(cache') < CacheWays]_vars

\* a miss found a modified victim: its WRITE_BACK is out, the line is still
\* in the cache and the request that missed is waiting
C37_Witness ==
    /\ cc.pc = "wb"
    /\ cache # <<>>
    /\ Head(cache).state = "M"
    /\ Head(cache).addr # cc.req.addr
    /\ Head(cache).addr \in cc.written_back
    /\ cc.req.type = "READ"

\* C38: the cache answers a snoop RSP_MISS when it does not hold the line;
\* when it holds it, RSP_S with the line's data for SNP_DATA, RSP_I for
\* SNP_INV, with the data only if the line was modified, and RSP_V with the
\* data for SNP_CUR; after SNP_INV the line is not in the cache.
C38_SnoopAnswers ==
    [][Len(h2c_rsp') > Len(h2c_rsp) =>
        LET r == Head(h2c_req)
            i == CacheIndex(cache, r.addr)
            rsp == h2c_rsp'[Len(h2c_rsp')]
        IN  /\ i = 0 => rsp.status = "RSP_MISS" /\ rsp.data = NoData /\ cache' = cache
            /\ (i # 0 /\ r.type = "SNP_DATA") =>
                  rsp.status = "RSP_S" /\ rsp.data = cache[i].data
            /\ (i # 0 /\ r.type = "SNP_INV") =>
                  /\ rsp.status = "RSP_I"
                  /\ rsp.data = IF cache[i].state = "M" THEN cache[i].data ELSE NoData
            /\ (i # 0 /\ r.type = "SNP_CUR") =>
                  rsp.status = "RSP_V" /\ rsp.data = cache[i].data
            /\ r.type = "SNP_INV" => CacheIndex(cache', r.addr) = 0]_vars

\* a modified line was snooped with SNP_INV: the answer carries its data and
\* the line is gone
C38_Witness ==
    /\ h2c_rsp # <<>>
    /\ h2c_rsp[Len(h2c_rsp)].status = "RSP_I"
    /\ h2c_rsp[Len(h2c_rsp)].line = "M"
    /\ h2c_rsp[Len(h2c_rsp)].data # NoData
    /\ cache = <<>>

\* the H2D packets the bridge puts in a step
SentH2D ==
    IF Len(brg'.host_to_target) > Len(brg.host_to_target)
    THEN SubSeq(brg'.host_to_target, Len(brg.host_to_target) + 1, Len(brg'.host_to_target))
    ELSE <<>>

\* C39 as stated: every answer of the bridge to a D2H request, GO_WRITE_PULL
\* included, is sent by a step that takes the host cache's answer to the
\* read or invalidate the bridge issued for that request.
C39_CacheFirstForEveryRequest ==
    [][SentH2D # <<>> =>
          /\ brg.pc = "wait_cache"
          /\ brg.cache_response # <<>>
          /\ brg'.cache_response = Tail(brg.cache_response)]_vars

\* C39: for CACHE_RD_SHARED the bridge issues SNP_DATA and for
\* CACHE_RD_OWN_NO_DATA SNP_INV at the request's address, and answers only
\* when the host cache has answered: GO and one data packet for the read, GO
\* alone for the other.  CACHE_DIRTY_EVICT is answered GO_WRITE_PULL at once,
\* with no request to the host cache, and when the D2H data arrives the
\* bridge writes that data to memory at the request's address.
C39_AnswersFollowD2HReq ==
    [][/\ Len(brg'.cache_request) > Len(brg.cache_request) =>
            LET p == Head(brg.target_to_host)
                r == brg'.cache_request[Len(brg'.cache_request)]
            IN  /\ p.cls = "D2HReq"
                /\ p.opcode \in {"CACHE_RD_SHARED", "CACHE_RD_OWN_NO_DATA"}
                /\ r.type = (IF p.opcode = "CACHE_RD_SHARED" THEN "SNP_DATA" ELSE "SNP_INV")
                /\ r.addr = p.addr
                /\ SentH2D = <<>>
       /\ SentH2D # <<>> =>
            IF brg.pc = "wait_cache"
            THEN /\ brg.cache_response # <<>>
                 /\ brg'.cache_response = Tail(brg.cache_response)
                 /\ brg.cur.opcode = "CACHE_RD_SHARED" =>
                       \E data \in Data : SentH2D = <<H2DRsp("GO"), H2DData(data)>>
                 /\ brg.cur.opcode = "CACHE_RD_OWN_NO_DATA" => SentH2D = <<H2DRsp("GO")>>
                 /\ brg.cur.opcode # "CACHE_DIRTY_EVICT"
            ELSE /\ brg.pc = "idle"
                 /\ Head(brg.target_to_host).opcode = "CACHE_DIRTY_EVICT"
                 /\ SentH2D = <<H2DRsp("GO_WRITE_PULL")>>
                 /\ brg'.cache_request = brg.cache_request
                 /\ brg'.memory_request = brg.memory_request
       /\ brg'.memory_request # brg.memory_request =>
            /\ brg.pc = "wait_data"
            /\ brg.cur.opcode = "CACHE_DIRTY_EVICT"
            /\ Head(brg.target_to_host).cls = "D2HData"
            /\ brg'.memory_request =
                  <<[type |-> "WRITE", addr |-> brg.cur.addr,
                     data |-> Head(brg.target_to_host).data]>>]_vars

\* a dirty evict has been written to memory and a shared read has then been
\* answered with GO and data
C39_Witness ==
    /\ brg.memory_request # <<>>
    /\ Len(brg.host_to_target) >= 2
    /\ brg.host_to_target[Len(brg.host_to_target)].cls = "H2DData"
    /\ brg.host_to_target[Len(brg.host_to_target) - 1] = H2DRsp("GO")
    /\ brg.pc = "idle"
====
